---------------------------- MODULE Spec2Model ----------------------------
(***************************************************************************)
(* Model of the BeeeOn gateway slices:                                     *)
(*   - VirtualDeviceManager (src/src/vdev/VirtualDeviceManager.cpp)        *)
(*   - DBusHciInterface     (src/unnamed/part_001)                         *)
(* Every handler is one atomic action.  lastOp and dispatched record what  *)
(* the last handler was called with, what it raised and what it emitted.   *)
(***************************************************************************)
EXTENDS Integers, Sequences, FiniteSets, TLC

VARIABLES
    \* ---- VirtualDeviceManager ----
    m_virtualDevicesMap,   \* DeviceID -> VirtualDevice (m_virtualDevicesMap)
    deviceCache,           \* set of DeviceIDs the DeviceCache reports paired
    m_pollingKeeper,       \* set of DeviceIDs scheduled in the polling keeper
    installed,             \* the "done" hook installVirtualDevices has run
    m_stopControl,         \* "run" | "stopRequested" | "done" (run() returned)
    dispatched,            \* NewDeviceCommands emitted by the last handler
    lastOp,                \* the last handler, its arguments and its outcome
    \* ---- DBusHciInterface ----
    now,                   \* the clock, in seconds
    m_seenClassicDevices,  \* MAC -> Timestamp of the classic devices seen
    confirmedAt,           \* history: MAC -> time of the last backend-positive detect
    m_devices,             \* MAC -> Device record of the adapter (m_devices.second)
    dbusObjects,           \* object path -> org.bluez.Device1 object of the bus
    discovering,           \* the Discovering property of the adapter
    lescanPc,              \* "idle" | "waiting": lescan sits in its tryWait
    seenEvidence,          \* history: MAC -> when and how its record was last seen
    lastHci,               \* the last adapter operation and its result
    powered,               \* the Powered property of the adapter
    lescanWait,            \* the wait of lescan: time left, woken by a broadcast
    devicesLock,           \* the holder of m_devices.first: "free" | "loop" | "caller"
    loopPc,                \* the event loop: the handler it runs for which signal
    \* ---- DBusHciInterfaceManager ----
    m_interfaces,          \* name -> the DBusHciInterface made for it
    m_mutex,               \* the holder of m_mutex: "free" or a thread
    lookupPc,              \* thread -> where its lookup is, for which name
    constructed,           \* history: the names the adapters were constructed for
    returned,              \* history: the <<name, adapter>> pairs lookup returned
    \* ---- GWServerConnector::m_contextPoll ----
    m_contextPoll,         \* correlation id -> deadline of the context registered
    issued,                \* the number of correlation ids given out so far
    deadlines,             \* history: correlation id -> deadline it was registered with
    takers,                \* history: correlation id -> the operations that took its entry
    delivered,             \* history: correlation id -> the outcomes its waiter was given
    \* ---- GWServerConnector: the uplink ----
    uplinkState,           \* "Disconnected" | "Connecting" | "Registering" | "Ready"
    m_socket,              \* the WebSocket of the connector: NoSocket or its number
    openSockets,           \* the WebSockets that are open
    opened,                \* the number of WebSockets opened so far
    deadSockets,           \* the open WebSockets whose connection is lost
    m_sendMutex,           \* the holder of m_sendMutex: "free" | "sender"
    m_receiveMutex,        \* the holder of m_receiveMutex: "free" | "sender" | "receiver"
    senderPc,              \* the sender thread: its step and the message in its hand
    receiverPc,            \* the receiver thread: its step
    requestReconnect,      \* the request_reconnect event
    m_connectedEvent,      \* the connected event
    m_stop,                \* stop() has been called
    reachable,             \* the server answers
    faults,                \* the faults of the link and of the server so far
    m_outputQueue,         \* the messages awaiting send, oldest first
    enqueued,              \* the number of messages enqueued so far
    wire,                  \* history: the messages written, with their socket
    acked,                 \* history: the sockets a RegisterAck was received on
    lastFault,             \* the failure of the last step of a thread, or "none"
    \* ---- VirtualDeviceManager: its handlers as threads ----
    m_lock,                \* the holder of m_lock: "free" or a thread
    handlerPc,             \* thread -> the handler it runs and where it is
    reconciled,            \* history: DeviceID -> the handler that completed on it last
    \* ---- DBusHciInterface: its mutexes ----
    hciLocks,              \* mutex -> its holder: "free" or a thread
    threadPc,              \* thread -> the operation it runs and where it is
    lockOrder              \* history: <<held, taken>> of every lock taken while holding

vdevVars == <<m_virtualDevicesMap, deviceCache, m_pollingKeeper, installed,
              m_stopControl, dispatched, lastOp>>
powerVars == <<powered, lescanWait>>
loopVars == <<devicesLock, loopPc>>
mgrVars == <<m_interfaces, m_mutex, lookupPc, constructed, returned>>
poolVars == <<m_contextPoll, issued, deadlines, takers, delivered>>
uplinkVars == <<uplinkState, m_socket, openSockets, opened, deadSockets, m_sendMutex,
                m_receiveMutex, senderPc, receiverPc, requestReconnect,
                m_connectedEvent, m_stop, reachable, faults, m_outputQueue,
                enqueued, wire, acked, lastFault>>
handlerVars == <<m_lock, handlerPc, reconciled>>
lockVars == <<hciLocks, threadPc, lockOrder>>
otherVars == <<mgrVars, poolVars, uplinkVars, handlerVars, lockVars>>
extVars == <<powerVars, loopVars, otherVars>>
hciVars == <<now, m_seenClassicDevices, confirmedAt, m_devices, dbusObjects,
             discovering, lescanPc, seenEvidence, lastHci, extVars>>
vars == <<vdevVars, hciVars>>

---------------------------------------------------------------------------
(* Bounds of the model *)
MaxIdent == 2      \* device identifiers 1..MaxIdent
MaxCfg == 2        \* virtual-device<i> sections of the configuration file
MaxModules == 2    \* module<i> sections of one device
MaxValue == 1      \* values of a set-value command: 1..MaxValue
MaxTime == 50      \* the clock runs from 0 to MaxTime seconds
ClassicTickSecs == 5   \* step of the clock between classic detections
BleTickSecs == 15      \* step of the clock between BLE events

---------------------------------------------------------------------------
(* DeviceID: <<prefix, ident>> *)
PREFIX_VIRTUAL_DEVICE == "vdev"
PREFIX_OTHER == "other"
Prefixes == {PREFIX_VIRTUAL_DEVICE, PREFIX_OTHER}
Idents == 1..MaxIdent
DeviceIDs == Prefixes \X Idents
NoID == <<"none", 0>>

REACTION_NONE == "none"
REACTION_SUCCESS == "success"
REACTION_FAILURE == "failure"
Reactions == {REACTION_NONE, REACTION_SUCCESS, REACTION_FAILURE}
\* a module<i> section: a reaction, or a section whose type does not parse
ModuleCfgs == Reactions \cup {"invalid"}

SeqsUpTo(S, n) == UNION {[1..k -> S] : k \in 0..n}

---------------------------------------------------------------------------
(* Collaborators whose code is outside the given sources *)

\* DeviceCache::markPaired(id) / markUnpaired(id) / paired(id)
markPaired(cache, id) == cache \cup {id}
markUnpaired(cache, id) == cache \ {id}
paired(cache, id) == id \in cache

\* DeviceCache::markPaired(prefix, devices), called by
\* DeviceManager::handleRemoteStatus: the paired set of the prefix is replaced
markPairedPrefix(cache, prefix, devices) ==
    {d \in cache : d[1] # prefix} \cup {d \in devices : d[1] = prefix}

\* PollingKeeper::schedule / cancel / cancelAll over the devices it keeps
KeeperSchedule(keeper, id) == keeper \cup {id}
KeeperCancel(keeper, id) == keeper \ {id}
KeeperCancelAll(keeper) == {}

\* VirtualDevice::modifyValue: the module of that id takes the value when its
\* reaction is "success"; otherwise (no such module, other reaction) false
modifyValueOk(device, moduleID) ==
    \E k \in 1..Len(device.modules) :
        /\ device.modules[k].moduleID = moduleID
        /\ device.modules[k].reaction = REACTION_SUCCESS
modifyValue(device, moduleID, value) ==
    [device EXCEPT !.modules =
        [k \in 1..Len(device.modules) |->
            IF /\ device.modules[k].moduleID = moduleID
               /\ device.modules[k].reaction = REACTION_SUCCESS
            THEN [device.modules[k] EXCEPT !.value = value]
            ELSE device.modules[k]]]

---------------------------------------------------------------------------
(* VirtualDeviceManager: loading the configuration *)

\* parseModule: throws when the type does not parse
parseModuleThrows(mcfg) == mcfg = "invalid"
parseModule(mcfg, moduleID) ==
    [moduleID |-> moduleID, reaction |-> mcfg, value |-> 0]

\* the module loop of parseDevice: module i of the file gets ModuleID i
\* (0-based); the loop breaks at the first module that throws
\* faulty variant: a module that throws is skipped and the loop goes on
RECURSIVE parseModules_Skip(_, _, _)
parseModules_Skip(mcfgs, k, acc) ==
    IF k > Len(mcfgs) THEN acc
    ELSE IF parseModuleThrows(mcfgs[k])
    THEN parseModules_Skip(mcfgs, k + 1, acc)
    ELSE parseModules_Skip(mcfgs, k + 1,
                           Append(acc, parseModule(mcfgs[k], k - 1)))

RECURSIVE parseModules(_, _, _)
parseModules(mcfgs, k, acc) ==
    IF k > Len(mcfgs) THEN acc
    ELSE IF parseModuleThrows(mcfgs[k]) THEN acc
    ELSE parseModules(mcfgs, k + 1, Append(acc, parseModule(mcfgs[k], k - 1)))

\* parseDevice: the device gets the virtual prefix; the pairing of the
\* configuration is recorded in the cache under the id as configured
parseDeviceID(cfg) == <<PREFIX_VIRTUAL_DEVICE, cfg.ident>>
parseDeviceCache(cache, cfg) ==
    LET id == <<cfg.prefix, cfg.ident>> IN
    IF cfg.paired THEN markPaired(cache, id) ELSE markUnpaired(cache, id)
\* getString("vendor") / getString("product") throw when the key is missing
parseDeviceThrows(cfg) == ~cfg.described
parseDevice(cfg) ==
    [id |-> parseDeviceID(cfg),
     modules |-> parseModules(cfg.modules, 1, <<>>)]

\* registerDevice: throws ExistsException on a duplicate id
registerDeviceThrows(map, device) == device.id \in DOMAIN map
registerDevice(map, device) ==
    [d \in DOMAIN map \cup {device.id} |->
        IF d = device.id THEN [modules |-> device.modules] ELSE map[d]]

\* installVirtualDevices: the loop over the virtual-device<i> sections
RECURSIVE installFrom(_, _, _, _)
installFrom(file, i, map, cache) ==
    IF i > Len(file) THEN [map |-> map, cache |-> cache]
    ELSE LET cfg == file[i] IN
         IF ~cfg.enable THEN installFrom(file, i + 1, map, cache)
         ELSE LET cache2 == parseDeviceCache(cache, cfg)
                  device == parseDevice(cfg)
              IN  IF parseDeviceThrows(cfg) \/ registerDeviceThrows(map, device)
                  THEN installFrom(file, i + 1, map, cache2)
                  ELSE installFrom(file, i + 1, registerDevice(map, device), cache2)

Op(op, id, err) ==
    [op |-> op, id |-> id, err |-> err, warned |-> FALSE,
     module |-> 0, called |-> FALSE]

\* the "failed to initialize module" message of parseDevice: some enabled
\* section reached its module loop and a module of it threw
moduleFailed(cfg) ==
    /\ cfg.enable
    /\ ~parseDeviceThrows(cfg)
    /\ \E k \in 1..Len(cfg.modules) : parseModuleThrows(cfg.modules[k])
installCritical(file) == \E i \in 1..Len(file) : moduleFailed(file[i])

installVirtualDevices(file) ==
    /\ ~installed
    /\ LET r == installFrom(file, 1, m_virtualDevicesMap, deviceCache) IN
       /\ m_virtualDevicesMap' = r.map
       /\ deviceCache' = r.cache
    /\ installed' = TRUE
    /\ dispatched' = <<>>
    /\ lastOp' = [Op("install", NoID, "none")
                      EXCEPT !.warned = installCritical(file)]
    /\ UNCHANGED <<m_pollingKeeper, m_stopControl, hciVars>>

---------------------------------------------------------------------------
(* VirtualDeviceManager: command handlers *)

\* dispatchNewDevice over the devices map in key order, for doListenCommand
RECURSIVE listenFrom(_, _, _)
listenFrom(i, map, cache) ==
    IF i > MaxIdent THEN <<>>
    ELSE LET id == <<PREFIX_VIRTUAL_DEVICE, i>> IN
         (IF id \in DOMAIN map /\ ~paired(cache, id) THEN <<id>> ELSE <<>>)
             \o listenFrom(i + 1, map, cache)

\* faulty variant: every device of the map is announced, paired or not
doListenCommand_All ==
    /\ installed
    /\ dispatched' = listenFrom(1, m_virtualDevicesMap, {})
    /\ lastOp' = Op("listen", NoID, "none")
    /\ UNCHANGED <<m_virtualDevicesMap, deviceCache, m_pollingKeeper,
                   installed, m_stopControl, hciVars>>

doListenCommand ==
    /\ installed
    /\ dispatched' = listenFrom(1, m_virtualDevicesMap, deviceCache)
    /\ lastOp' = Op("listen", NoID, "none")
    /\ UNCHANGED <<m_virtualDevicesMap, deviceCache, m_pollingKeeper,
                   installed, m_stopControl, hciVars>>

\* faulty variant: an accept of a paired device is ignored, as its warning says
doDeviceAcceptCommand_IgnorePaired(id) ==
    /\ installed
    /\ dispatched' = <<>>
    /\ IF id \notin DOMAIN m_virtualDevicesMap
       THEN /\ lastOp' = Op("accept", id, "NotFound")
            /\ UNCHANGED <<deviceCache, m_pollingKeeper>>
       ELSE IF paired(deviceCache, id)
       THEN /\ lastOp' = [Op("accept", id, "none") EXCEPT !.warned = TRUE]
            /\ UNCHANGED <<deviceCache, m_pollingKeeper>>
       ELSE /\ deviceCache' = markPaired(deviceCache, id)
            /\ m_pollingKeeper' = KeeperSchedule(m_pollingKeeper, id)
            /\ lastOp' = Op("accept", id, "none")
    /\ UNCHANGED <<m_virtualDevicesMap, installed, m_stopControl, hciVars>>

\* faulty variant: the device is marked paired before it is looked up
doDeviceAcceptCommand_MarkFirst(id) ==
    /\ installed
    /\ dispatched' = <<>>
    /\ deviceCache' = markPaired(deviceCache, id)
    /\ IF id \notin DOMAIN m_virtualDevicesMap
       THEN /\ lastOp' = Op("accept", id, "NotFound")
            /\ UNCHANGED m_pollingKeeper
       ELSE /\ m_pollingKeeper' = KeeperSchedule(m_pollingKeeper, id)
            /\ lastOp' = [Op("accept", id, "none")
                              EXCEPT !.warned = paired(deviceCache, id)]
    /\ UNCHANGED <<m_virtualDevicesMap, installed, m_stopControl, hciVars>>

doDeviceAcceptCommand(id) ==
    /\ installed
    /\ dispatched' = <<>>
    /\ IF id \notin DOMAIN m_virtualDevicesMap
       THEN /\ lastOp' = Op("accept", id, "NotFound")
            /\ UNCHANGED <<deviceCache, m_pollingKeeper>>
       ELSE /\ deviceCache' = markPaired(deviceCache, id)
            /\ m_pollingKeeper' = KeeperSchedule(m_pollingKeeper, id)
            /\ lastOp' = [Op("accept", id, "none")
                              EXCEPT !.warned = paired(deviceCache, id)]
    /\ UNCHANGED <<m_virtualDevicesMap, installed, m_stopControl, hciVars>>

\* faulty variant: the device is marked unpaired and its poll is left scheduled
doUnpairCommand_NoCancel(id) ==
    /\ installed
    /\ dispatched' = <<>>
    /\ IF id \notin DOMAIN m_virtualDevicesMap
       THEN UNCHANGED <<deviceCache, m_pollingKeeper>>
       ELSE /\ deviceCache' = markUnpaired(deviceCache, id)
            /\ UNCHANGED m_pollingKeeper
    /\ lastOp' = [Op("unpair", id, "none") EXCEPT !.warned =
                      \/ id \notin DOMAIN m_virtualDevicesMap
                      \/ ~paired(deviceCache, id)]
    /\ UNCHANGED <<m_virtualDevicesMap, installed, m_stopControl, hciVars>>

\* faulty variant: an unknown id is an error, as it is for accept
doUnpairCommand_Throws(id) ==
    /\ installed
    /\ dispatched' = <<>>
    /\ IF id \notin DOMAIN m_virtualDevicesMap
       THEN /\ lastOp' = Op("unpair", id, "NotFound")
            /\ UNCHANGED <<deviceCache, m_pollingKeeper>>
       ELSE /\ deviceCache' = markUnpaired(deviceCache, id)
            /\ m_pollingKeeper' = KeeperCancel(m_pollingKeeper, id)
            /\ lastOp' = [Op("unpair", id, "none")
                              EXCEPT !.warned = ~paired(deviceCache, id)]
    /\ UNCHANGED <<m_virtualDevicesMap, installed, m_stopControl, hciVars>>

\* both early exits of the code only log a warning
doUnpairCommand(id) ==
    /\ installed
    /\ dispatched' = <<>>
    /\ IF id \notin DOMAIN m_virtualDevicesMap
       THEN UNCHANGED <<deviceCache, m_pollingKeeper>>
       ELSE /\ deviceCache' = markUnpaired(deviceCache, id)
            /\ m_pollingKeeper' = KeeperCancel(m_pollingKeeper, id)
    /\ lastOp' = [Op("unpair", id, "none") EXCEPT !.warned =
                      \/ id \notin DOMAIN m_virtualDevicesMap
                      \/ ~paired(deviceCache, id)]
    /\ UNCHANGED <<m_virtualDevicesMap, installed, m_stopControl, hciVars>>

\* the loop of doSetValueCommand over the modules of the device
setValueRejected(device, moduleID) ==
    \E k \in 1..Len(device.modules) :
        /\ device.modules[k].moduleID = moduleID
        /\ device.modules[k].reaction = REACTION_NONE

\* faulty variant: the reaction of the target module is not looked at
doSetValueCommand_NoReactionCheck(id, moduleID, value) ==
    /\ installed
    /\ dispatched' = <<>>
    /\ IF id \notin DOMAIN m_virtualDevicesMap
       THEN /\ lastOp' = [Op("set-value", id, "NotFound") EXCEPT !.module = moduleID]
            /\ UNCHANGED m_virtualDevicesMap
       ELSE LET device == m_virtualDevicesMap[id] IN
            /\ m_virtualDevicesMap' =
                   [m_virtualDevicesMap EXCEPT
                       ![id] = modifyValue(device, moduleID, value)]
            /\ lastOp' = [Op("set-value", id,
                             IF modifyValueOk(device, moduleID)
                             THEN "none" ELSE "IllegalState")
                             EXCEPT !.module = moduleID, !.called = TRUE]
    /\ UNCHANGED <<deviceCache, m_pollingKeeper, installed, m_stopControl, hciVars>>

doSetValueCommand(id, moduleID, value) ==
    /\ installed
    /\ dispatched' = <<>>
    /\ IF id \notin DOMAIN m_virtualDevicesMap
       THEN /\ lastOp' = [Op("set-value", id, "NotFound") EXCEPT !.module = moduleID]
            /\ UNCHANGED m_virtualDevicesMap
       ELSE LET device == m_virtualDevicesMap[id] IN
            IF setValueRejected(device, moduleID)
            THEN /\ lastOp' = [Op("set-value", id, "InvalidAccess")
                                  EXCEPT !.module = moduleID]
                 /\ UNCHANGED m_virtualDevicesMap
            ELSE /\ m_virtualDevicesMap' =
                        [m_virtualDevicesMap EXCEPT
                            ![id] = modifyValue(device, moduleID, value)]
                 /\ lastOp' = [Op("set-value", id,
                                  IF modifyValueOk(device, moduleID)
                                  THEN "none" ELSE "IllegalState")
                                  EXCEPT !.module = moduleID, !.called = TRUE]
    /\ UNCHANGED <<deviceCache, m_pollingKeeper, installed, m_stopControl, hciVars>>

\* faulty variant: paired devices are scheduled and no poll is cancelled
scheduleAllEntries_NoCancel(map, cache, keeper) ==
    keeper \cup {id \in DOMAIN map : paired(cache, id)}

\* scheduleAllEntries: schedule every paired device of the map, cancel the rest
scheduleAllEntries(map, cache, keeper) ==
    (keeper \cup {id \in DOMAIN map : paired(cache, id)})
        \ {id \in DOMAIN map : ~paired(cache, id)}

handleRemoteStatus(prefix, devices) ==
    /\ installed
    /\ dispatched' = <<>>
    /\ deviceCache' = markPairedPrefix(deviceCache, prefix, devices)
    /\ m_pollingKeeper' =
           scheduleAllEntries(m_virtualDevicesMap, deviceCache', m_pollingKeeper)
    /\ lastOp' = Op("handleRemoteStatus", NoID, "none")
    /\ UNCHANGED <<m_virtualDevicesMap, installed, m_stopControl, hciVars>>

\* one iteration of the loop of run()
runIteration ==
    /\ installed
    /\ m_stopControl = "run"
    /\ dispatched' = <<>>
    /\ m_pollingKeeper' =
           scheduleAllEntries(m_virtualDevicesMap, deviceCache, m_pollingKeeper)
    /\ lastOp' = Op("run", NoID, "none")
    /\ UNCHANGED <<m_virtualDevicesMap, deviceCache, installed, m_stopControl, hciVars>>

\* stop(): the stop request, observed by run() at its next check
stop ==
    /\ installed
    /\ m_stopControl = "run"
    /\ m_stopControl' = "stopRequested"
    /\ dispatched' = <<>>
    /\ lastOp' = Op("stop", NoID, "none")
    /\ UNCHANGED <<m_virtualDevicesMap, deviceCache, m_pollingKeeper, installed, hciVars>>

\* run() leaves its loop and cancels every poll
runExit ==
    /\ m_stopControl = "stopRequested"
    /\ m_stopControl' = "done"
    /\ m_pollingKeeper' = KeeperCancelAll(m_pollingKeeper)
    /\ dispatched' = <<>>
    /\ lastOp' = Op("runExit", NoID, "none")
    /\ UNCHANGED <<m_virtualDevicesMap, deviceCache, installed, hciVars>>

---------------------------------------------------------------------------
(* DBusHciInterface: classic presence (detect) *)

MACs == {"AA:BB:CC:DD:EE:01", "AA:BB:CC:DD:EE:02"}
NoMAC == "none"

\* DBusHciInterfaceManager: the default of classicArtificialAvaibilityTimeout (s)
ClassicArtificialAvaibilityTimeout == 30

HciOp(op, mac, backend, result) ==
    [op |-> op, mac |-> mac, backend |-> backend, result |-> result,
     found |-> {}, removed |-> {}, callBack |-> "none", gerror |-> <<>>,
     waitLeft |-> 0, powerChange |-> FALSE, polls |-> 0, flipAt |-> 0,
     waitedMs |-> 0,
     err |-> "none"]

\* f with f[k] = v, k added to its domain when new (map emplace / update)
Put(f, k, v) == [x \in DOMAIN f \cup {k} |-> IF x = k THEN v ELSE f[x]]
Drop(f, ks) == [x \in DOMAIN f \ ks |-> f[x]]

\* faulty variant: a repeated real detection does not update the timestamp
detect_NoUpdate(seen, address, status, t) ==
    IF address \notin DOMAIN seen
    THEN [seen |-> IF status THEN Put(seen, address, t) ELSE seen,
          result |-> status]
    ELSE IF status
    THEN [seen |-> seen, result |-> TRUE]
    ELSE [seen |-> seen,
          result |-> t - seen[address] <= ClassicArtificialAvaibilityTimeout]

\* faulty variant: an artificially-true answer updates the timestamp
detect_RefreshOnArtificial(seen, address, status, t) ==
    IF address \notin DOMAIN seen
    THEN [seen |-> IF status THEN Put(seen, address, t) ELSE seen,
          result |-> status]
    ELSE IF status
    THEN [seen |-> Put(seen, address, t), result |-> TRUE]
    ELSE IF t - seen[address] <= ClassicArtificialAvaibilityTimeout
    THEN [seen |-> Put(seen, address, t), result |-> TRUE]
    ELSE [seen |-> seen, result |-> FALSE]

\* detect: status is the answer of the backend (BluezHciInterface::detect),
\* t the time the presence map is consulted
detect(seen, address, status, t) ==
    IF address \notin DOMAIN seen
    THEN [seen |-> IF status THEN Put(seen, address, t) ELSE seen,
          result |-> status]
    ELSE IF status
    THEN [seen |-> Put(seen, address, t), result |-> TRUE]
    ELSE [seen |-> seen,
          result |-> t - seen[address] <= ClassicArtificialAvaibilityTimeout]

\* the event loop between two signals
LoopIdle == [pc |-> "idle", path |-> <<>>, changed |-> {}]

MaxIds == 3
PoolCapacity == 2
ResendTimeout == 10
PoolTickSecs == 20
CorrelationIds == 1..MaxIds

\* the context pool with no context registered
PoolIdle ==
    /\ m_contextPoll = <<>>
    /\ issued = 0
    /\ deadlines = <<>>
    /\ takers = [id \in CorrelationIds |-> <<>>]
    /\ delivered = [id \in CorrelationIds |-> <<>>]

MaxFaults == 2
MaxMsgs == 3
QueueCapacity == 2
NoSocket == 0
NoMsg == 0
SenderIdle == [pc |-> "idle", msg |-> NoMsg]

\* the connector after start(): no socket, a connect requested
UplinkIdle ==
    /\ uplinkState = "Disconnected"
    /\ m_socket = NoSocket
    /\ openSockets = {}
    /\ opened = 0
    /\ deadSockets = {}
    /\ m_sendMutex = "free"
    /\ m_receiveMutex = "free"
    /\ senderPc = SenderIdle
    /\ receiverPc = "waitConnected"
    /\ requestReconnect = TRUE
    /\ m_connectedEvent = FALSE
    /\ m_stop = FALSE
    /\ reachable = TRUE
    /\ faults = 0
    /\ m_outputQueue = <<>>
    /\ enqueued = 0
    /\ wire = <<>>
    /\ acked = {}
    /\ lastFault = "none"

HandlerThreads == {"h1", "h2", "run"}
HandlerIdle == [op |-> "none", pc |-> "idle", id |-> NoID, todo |-> {},
                paired |-> FALSE]

\* no handler of the virtual device manager under way
HandlersIdle ==
    /\ m_lock = "free"
    /\ handlerPc = [t \in HandlerThreads |-> HandlerIdle]
    /\ reconciled = [id \in DeviceIDs |-> "none"]

HciThreads == {"caller1", "caller2", "loop"}
HciMutexes ==
    {"m_statusMutex", "m_discoveringMutex", "m_devices", "m_classicMutex"}
ThreadIdle == [op |-> "none", pc |-> 0, polls |-> 0, then |-> "none"]

\* no operation of the adapter under way
LocksIdle ==
    /\ hciLocks = [l \in HciMutexes |-> "free"]
    /\ threadPc = [t \in HciThreads |-> ThreadIdle]
    /\ lockOrder = {}

Threads == {"t1", "t2"}
AdapterNames == {"hci0", "hci1"}
NoAdapter == 0
LookupIdle == [pc |-> "idle", name |-> "", result |-> NoAdapter]

\* the manager with no adapter and no lookup under way
OtherIdle ==
    /\ m_interfaces = <<>>
    /\ m_mutex = "free"
    /\ lookupPc = [t \in Threads |-> LookupIdle]
    /\ constructed = <<>>
    /\ returned = {}
    /\ PoolIdle
    /\ UplinkIdle
    /\ HandlersIdle
    /\ LocksIdle

\* the adapter powered, no lescan waiting, the event loop idle
ExtIdle ==
    /\ powered = TRUE
    /\ lescanWait = [remaining |-> 0, woken |-> FALSE]
    /\ devicesLock = "free"
    /\ loopPc = LoopIdle
    /\ OtherIdle

bleVars == <<m_devices, dbusObjects, discovering, lescanPc, seenEvidence>>

Detect(address, status) ==
    /\ LET r == detect(m_seenClassicDevices, address, status, now) IN
       /\ m_seenClassicDevices' = r.seen
       /\ lastHci' = HciOp("detect", address, status, r.result)
    /\ confirmedAt' = IF status THEN Put(confirmedAt, address, now)
                      ELSE confirmedAt
    /\ UNCHANGED <<now, bleVars, vdevVars, extVars>>

ClassicTick ==
    /\ now + ClassicTickSecs <= MaxTime
    /\ now' = now + ClassicTickSecs
    /\ lastHci' = HciOp("tick", NoMAC, FALSE, FALSE)
    /\ UNCHANGED <<m_seenClassicDevices, confirmedAt, bleVars, vdevVars, extVars>>

DetectAny == \E address \in MACs, status \in BOOLEAN : Detect(address, status)

NextClassic ==
    \/ DetectAny
    \/ ClassicTick

---------------------------------------------------------------------------
(* DBusHciInterface: the BLE device map, its D-Bus callbacks and lescan.   *)
(* An object path is <<adapter, mac>>; a Device record keeps the path of   *)
(* its proxy, the RSSI property the proxy caches, lastSeen and the watch.  *)

m_name == "hci0"
\* DBusHciInterfaceManager: the defaults of leMaxAgeRssi and
\* leMaxUnavailabilityTime (s)
LeMaxAgeRssi == 30
LeMaxUnavailabilityTime == 7 * 24 * 3600
RSSI_DEVICE_UNAVAILABLE == 0
GERROR_IN_PROGRESS == 36

\* an RSSI a device in range is reported with
RssiInRange == RSSI_DEVICE_UNAVAILABLE - 60
RssiValues == {RSSI_DEVICE_UNAVAILABLE, RssiInRange}
PropertyNames == {"RSSI", "ManufacturerData"}
\* a GError is <<>> (null) or <<code>>
GErrors == {<<>>, <<GERROR_IN_PROGRESS>>, <<GERROR_IN_PROGRESS + 1>>}

createDevicePath(name, mac) == <<name, mac>>
macAddress(path) == path[2]
Paths == {createDevicePath(m_name, mac) : mac \in MACs}

\* throwErrorIfAny: the exception the GError is converted to
throwErrorIfAny(error) ==
    IF error = <<>> THEN "none"
    ELSE IF error[1] = GERROR_IN_PROGRESS THEN "none"
    ELSE "IOException"

\* the callbacks a caller watches with; a record holds NoCallback when it is
\* not watched
WatchCallbacks == {"cb1", "cb2"}
NoCallback == "none"

\* Device::Device(device, rssiHandle): lastSeen is default-constructed, the
\* time of the construction
Device(path, rssi, t) ==
    [device |-> path, rssi |-> rssi, lastSeen |-> t, watched |-> FALSE,
     callBack |-> NoCallback, watchSignals |-> 0]

\* map::emplace: an existing record is kept
Emplace(devices, mac, d) ==
    IF mac \in DOMAIN devices THEN devices ELSE Put(devices, mac, d)

\* the proxies of the object at path see its RSSI property change
ProxyRssi(devices, path, rssi) ==
    [mac \in DOMAIN devices |->
        IF devices[mac].device = path
        THEN [devices[mac] EXCEPT !.rssi = rssi]
        ELSE devices[mac]]

\* faulty variant: a change of any property refreshes lastSeen
onDeviceRSSIChanged_AnyProperty(devices, mac, properties, t) ==
    IF properties = {} THEN devices
    ELSE IF mac \in DOMAIN devices
    THEN [devices EXCEPT ![mac].lastSeen = t]
    ELSE devices

\* faulty variant: an RSSI change of an unknown address creates its record
onDeviceRSSIChanged_Create(devices, mac, properties, t) ==
    IF properties = {} THEN devices
    ELSE IF "RSSI" \notin properties THEN devices
    ELSE IF mac \in DOMAIN devices
    THEN [devices EXCEPT ![mac].lastSeen = t]
    ELSE Put(devices, mac,
             Device(createDevicePath(m_name, mac), RSSI_DEVICE_UNAVAILABLE, t))

\* onDeviceRSSIChanged: properties are the names of the changed properties
onDeviceRSSIChanged(devices, mac, properties, t) ==
    IF properties = {} THEN devices
    ELSE IF "RSSI" \in properties /\ mac \in DOMAIN devices
    THEN [devices EXCEPT ![mac].lastSeen = t]
    ELSE devices

\* onDBusObjectAdded for a new org.bluez.Device1 object at path; proxyOk:
\* retrieveBluezDevice has not thrown
onDBusObjectAdded(path, rssi, proxyOk) ==
    /\ path \notin DOMAIN dbusObjects
    /\ dbusObjects' = Put(dbusObjects, path, [rssi |-> rssi])
    /\ LET mac == macAddress(path)
           created == proxyOk /\ mac \notin DOMAIN m_devices
       IN  /\ m_devices' = IF proxyOk
                           THEN Emplace(m_devices, mac, Device(path, rssi, now))
                           ELSE m_devices
           /\ seenEvidence' =
                  IF created
                  THEN Put(seenEvidence, mac, [at |-> now, byRssi |-> FALSE])
                  ELSE seenEvidence
           /\ lastHci' = HciOp("objectAdded", mac, proxyOk, created)
    /\ UNCHANGED <<now, m_seenClassicDevices, confirmedAt, discovering,
                   lescanPc, vdevVars, extVars>>

\* g-properties-changed of the object at path with the changed properties;
\* invalidated properties (an RSSI that is withdrawn) come with none changed
PropertiesChanged(path, changed) ==
    /\ path \in DOMAIN dbusObjects
    /\ LET mac == macAddress(path)
           rssi == IF "RSSI" \in changed THEN RssiInRange
                   ELSE IF changed = {} THEN RSSI_DEVICE_UNAVAILABLE
                   ELSE dbusObjects[path].rssi
       IN  /\ dbusObjects' = [dbusObjects EXCEPT ![path].rssi = rssi]
           /\ m_devices' = onDeviceRSSIChanged(
                               ProxyRssi(m_devices, path, rssi), mac, changed, now)
           /\ seenEvidence' =
                  IF "RSSI" \in changed /\ mac \in DOMAIN m_devices
                  THEN Put(seenEvidence, mac, [at |-> now, byRssi |-> TRUE])
                  ELSE seenEvidence
           /\ lastHci' = HciOp("propertiesChanged", mac, "RSSI" \in changed, FALSE)
    /\ UNCHANGED <<now, m_seenClassicDevices, confirmedAt, discovering,
                   lescanPc, vdevVars, extVars>>

\* Device::isWatched, Device::watch(handle, callBack), Device::unwatch;
\* watchSignals counts the handlers connected for manufacturer data
isWatched(d) == d.watched
DeviceWatch(d, callBack) ==
    [d EXCEPT !.watched = TRUE, !.callBack = callBack,
              !.watchSignals = d.watchSignals + 1]
DeviceUnwatch(d) ==
    [d EXCEPT !.watched = FALSE, !.callBack = NoCallback,
              !.watchSignals = d.watchSignals - 1]

\* faulty variant: a watched device is subscribed again with the new callback
watchDevices_Again(devices, address, callBack, connected) ==
    IF address \notin DOMAIN devices
    THEN [devices |-> devices, err |-> "NotFoundException"]
    ELSE IF ~connected
    THEN [devices |-> devices, err |-> "IOException"]
    ELSE [devices |-> [devices EXCEPT
                          ![address] = DeviceWatch(devices[address], callBack)],
          err |-> "none"]

\* watch(address, callBack) on the device map; connected: g_signal_connect
\* gave a handle
watchDevices(devices, address, callBack, connected) ==
    IF address \notin DOMAIN devices
    THEN [devices |-> devices, err |-> "NotFoundException"]
    ELSE IF isWatched(devices[address])
    THEN [devices |-> devices, err |-> "none"]
    ELSE IF ~connected
    THEN [devices |-> devices, err |-> "IOException"]
    ELSE [devices |-> [devices EXCEPT
                          ![address] = DeviceWatch(devices[address], callBack)],
          err |-> "none"]

\* unwatch(address) on the device map
unwatchDevices(devices, address) ==
    IF address \notin DOMAIN devices THEN devices
    ELSE IF ~isWatched(devices[address]) THEN devices
    ELSE [devices EXCEPT ![address] = DeviceUnwatch(devices[address])]

watch(address, callBack, connected) ==
    /\ LET r == watchDevices(m_devices, address, callBack, connected) IN
       /\ m_devices' = r.devices
       /\ lastHci' = [HciOp("watch", address, connected, r.err = "none")
                         EXCEPT !.err = r.err, !.callBack = callBack]
    /\ UNCHANGED <<now, m_seenClassicDevices, confirmedAt, dbusObjects,
                   discovering, lescanPc, seenEvidence, vdevVars, extVars>>

unwatch(address) ==
    /\ m_devices' = unwatchDevices(m_devices, address)
    /\ lastHci' = HciOp("unwatch", address, FALSE, TRUE)
    /\ UNCHANGED <<now, m_seenClassicDevices, confirmedAt, dbusObjects,
                   discovering, lescanPc, seenEvidence, vdevVars, extVars>>

\* faulty variant: a watched record is erased like any other
Unavailable_Watched(devices, t) ==
    {mac \in DOMAIN devices :
        t - devices[mac].lastSeen > LeMaxUnavailabilityTime}

\* faulty variant: no record is ever erased
Unavailable_Never(devices, t) == {}

\* removeUnvailableDevices: the macs whose records are erased at time t
Unavailable(devices, t) ==
    {mac \in DOMAIN devices :
        /\ ~isWatched(devices[mac])
        /\ t - devices[mac].lastSeen > LeMaxUnavailabilityTime}

\* lescan: the macs of the snapshot taken at time t
Visible(devices, t) ==
    {mac \in DOMAIN devices :
        /\ ~(t - devices[mac].lastSeen > LeMaxAgeRssi)
        /\ devices[mac].rssi # RSSI_DEVICE_UNAVAILABLE}

\* startDiscovery(m_adapter, "le"): the exception it ends with; error is
\* what start_discovery_sync reports when the adapter is not discovering yet
startDiscovery(isDiscovering, error) ==
    IF isDiscovering THEN "none" ELSE throwErrorIfAny(error)

\* m_resetCondition.tryWait(timeout): the time left and whether a broadcast
\* has ended the wait
Waiting(timeout) == [remaining |-> timeout, woken |-> FALSE]
NotWaiting == Waiting(0)
\* the time left of a wait after secs seconds
Elapse(wait, secs) ==
    [wait EXCEPT !.remaining = IF wait.remaining > secs
                               THEN wait.remaining - secs ELSE 0]

\* lescan up to its wait: startDiscovery(m_adapter, "le"); error is what
\* start_discovery_sync reports when the adapter is not discovering yet
lescanStart(timeout, error) ==
    /\ lescanPc = "idle"
    /\ LET exc == startDiscovery(discovering, error) IN
       /\ discovering' = (discovering \/ exc = "none")
       /\ lescanPc' = IF exc = "none" THEN "waiting" ELSE "idle"
       /\ lescanWait' = IF exc = "none" THEN Waiting(timeout) ELSE NotWaiting
       /\ lastHci' = [HciOp("lescanStart", NoMAC, FALSE, exc = "none")
                         EXCEPT !.err = exc]
    /\ UNCHANGED <<now, m_seenClassicDevices, confirmedAt, m_devices,
                   dbusObjects, seenEvidence, vdevVars, otherVars, powered, loopVars>>

\* lescan after its wait: the snapshot, then removeUnvailableDevices
lescanFinish ==
    /\ lescanPc = "waiting"
    /\ lescanWait.woken \/ lescanWait.remaining = 0
    /\ lescanPc' = "idle"
    /\ lescanWait' = NotWaiting
    /\ LET gone == Unavailable(m_devices, now) IN
       /\ lastHci' = [HciOp("lescan", NoMAC, lescanWait.woken, TRUE)
                         EXCEPT !.found = Visible(m_devices, now),
                                !.removed = gone,
                                !.waitLeft = lescanWait.remaining]
       /\ m_devices' = Drop(m_devices, gone)
       /\ dbusObjects' =
              Drop(dbusObjects, {createDevicePath(m_name, mac) : mac \in gone})
       /\ seenEvidence' = Drop(seenEvidence, gone)
    /\ UNCHANGED <<now, m_seenClassicDevices, confirmedAt, discovering,
                   vdevVars, otherVars, powered, loopVars>>

BleTick ==
    /\ now + BleTickSecs <= MaxTime
    /\ now' = now + BleTickSecs
    /\ lescanWait' = Elapse(lescanWait, BleTickSecs)
    /\ lastHci' = HciOp("tick", NoMAC, FALSE, FALSE)
    /\ UNCHANGED <<m_seenClassicDevices, confirmedAt, bleVars, vdevVars, otherVars, powered,
                   loopVars>>

\* a long silence: the clock passes leMaxUnavailabilityTime at once
BleLeap ==
    /\ now <= MaxTime
    /\ now' = now + LeMaxUnavailabilityTime
    /\ lescanWait' = Elapse(lescanWait, LeMaxUnavailabilityTime)
    /\ lastHci' = HciOp("tick", NoMAC, FALSE, FALSE)
    /\ UNCHANGED <<m_seenClassicDevices, confirmedAt, bleVars, vdevVars, otherVars, powered,
                   loopVars>>

\* the constructor: every org.bluez.Device1 object of the adapter known to
\* the object manager gets a record
InitBle ==
    /\ m_virtualDevicesMap = <<>>
    /\ deviceCache = {}
    /\ m_pollingKeeper = {}
    /\ installed = FALSE
    /\ m_stopControl = "run"
    /\ dispatched = <<>>
    /\ lastOp = Op("init", NoID, "none")
    /\ now = 0
    /\ m_seenClassicDevices = <<>>
    /\ confirmedAt = <<>>
    /\ \E known \in SUBSET Paths :
          /\ dbusObjects = [path \in known |-> [rssi |-> RSSI_DEVICE_UNAVAILABLE]]
          /\ m_devices = [mac \in {macAddress(path) : path \in known} |->
                             Device(createDevicePath(m_name, mac),
                                    RSSI_DEVICE_UNAVAILABLE, 0)]
          /\ seenEvidence = [mac \in {macAddress(path) : path \in known} |->
                                [at |-> 0, byRssi |-> FALSE]]
    /\ discovering = FALSE
    /\ lescanPc = "idle"
    /\ lastHci = HciOp("init", NoMAC, FALSE, FALSE)
    /\ ExtIdle

ObjectAdded ==
    \E path \in Paths, rssi \in RssiValues, proxyOk \in BOOLEAN :
        onDBusObjectAdded(path, rssi, proxyOk)
DeviceSignal ==
    \E path \in Paths, changed \in SUBSET PropertyNames :
        PropertiesChanged(path, changed)
Watch ==
    \E address \in MACs, connected \in BOOLEAN : watch(address, "cb1", connected)
Unwatch == \E address \in MACs : unwatch(address)
LescanStart == \E error \in GErrors : lescanStart(0, error)

NextBle ==
    \/ ObjectAdded
    \/ DeviceSignal
    \/ Watch
    \/ Unwatch
    \/ LescanStart
    \/ lescanFinish
    \/ BleTick
    \/ BleLeap

\* the adapter: the BLE device map under D-Bus events, scans and time
SpecBle == InitBle /\ [][NextBle]_vars

\* faulty variant: an error "in progress" of the backend is an error
connectResult_InProgressFails(devices, address, connected, error) ==
    IF address \notin DOMAIN devices THEN "NotFoundException"
    ELSE IF connected THEN "none"
    ELSE IF error = <<>> THEN "none" ELSE "IOException"

\* connect(address, timeout): the exception it ends with; connected is the
\* Connected property of the device, error what connect_sync reports
connectResult(devices, address, connected, error) ==
    IF address \notin DOMAIN devices THEN "NotFoundException"
    ELSE IF connected THEN "none"
    ELSE throwErrorIfAny(error)

\* connect(address, timeout); result: a DBusHciConnection is returned
connect(address, connected, error) ==
    /\ LET exc == connectResult(m_devices, address, connected, error) IN
       lastHci' = [HciOp("connect", address, connected, exc = "none")
                      EXCEPT !.err = exc, !.gerror = error]
    /\ UNCHANGED <<now, m_seenClassicDevices, confirmedAt, bleVars, vdevVars, extVars>>

Connect ==
    \E address \in MACs, connected \in BOOLEAN, error \in GErrors :
        connect(address, connected, error)

NextConnect ==
    \/ ObjectAdded
    \/ Connect

\* the adapter: connections to the devices of the map
SpecConnect == InitBle /\ [][NextConnect]_vars

---------------------------------------------------------------------------
(* DBusHciInterface: power transitions.  BlueZ flips the Powered property  *)
(* some time after set_powered: flipAt is the number of polls of           *)
(* waitUntilPoweredChange that still read the old state, NeverFlips when   *)
(* the property stays as it was.                                           *)

CHANGE_POWER_ATTEMPTS == 5
CHANGE_POWER_DELAY == 200
NeverFlips == CHANGE_POWER_ATTEMPTS + 1
FlipTimes == 0..NeverFlips

\* faulty variant: the state is read once more after the last delay
PollPowered_FinalRead(i, flipAt) ==
    [timeout |-> flipAt = NeverFlips,
     polls |-> IF flipAt < CHANGE_POWER_ATTEMPTS
               THEN flipAt + 1 ELSE CHANGE_POWER_ATTEMPTS]

\* the loop of waitUntilPoweredChange from attempt i on
RECURSIVE PollPowered(_, _)
PollPowered(i, flipAt) ==
    IF i >= CHANGE_POWER_ATTEMPTS
    THEN [timeout |-> TRUE, polls |-> i]
    ELSE IF flipAt <= i
    THEN [timeout |-> FALSE, polls |-> i + 1]
    ELSE PollPowered(i + 1, flipAt)

\* waitUntilPoweredChange: whether it throws TimeoutException, the polls it
\* made and the time (ms) it spent in its delays
waitUntilPoweredChange(flipAt) ==
    LET r == PollPowered(0, flipAt) IN
    [timeout |-> r.timeout, polls |-> r.polls,
     waitedMs |-> CHANGE_POWER_DELAY *
                      (IF r.timeout THEN r.polls ELSE r.polls - 1)]

\* faulty variant: up switches the power whatever the state
upPower_Always(isPowered, flipAt) ==
    LET w == waitUntilPoweredChange(flipAt) IN
    [powerChange |-> TRUE, polls |-> w.polls, waitedMs |-> w.waitedMs,
     err |-> IF w.timeout THEN "TimeoutException" ELSE "none",
     powered |-> flipAt # NeverFlips]

\* the power part of up(): set_powered(true) and the polls, when the
\* adapter is not powered
upPower(isPowered, flipAt) ==
    IF isPowered
    THEN [powerChange |-> FALSE, polls |-> 0, waitedMs |-> 0, err |-> "none", powered |-> TRUE]
    ELSE LET w == waitUntilPoweredChange(flipAt) IN
         [powerChange |-> TRUE, polls |-> w.polls, waitedMs |-> w.waitedMs,
          err |-> IF w.timeout THEN "TimeoutException" ELSE "none",
          powered |-> flipAt # NeverFlips]

\* the power part of down(): set_powered(false) and the polls, when the
\* adapter is powered
downPower(isPowered, flipAt) ==
    IF ~isPowered
    THEN [powerChange |-> FALSE, polls |-> 0, waitedMs |-> 0, err |-> "none", powered |-> FALSE]
    ELSE LET w == waitUntilPoweredChange(flipAt) IN
         [powerChange |-> TRUE, polls |-> w.polls, waitedMs |-> w.waitedMs,
          err |-> IF w.timeout THEN "TimeoutException" ELSE "none",
          powered |-> flipAt = NeverFlips]

\* up(); error is what start_discovery_sync reports
up(flipAt, error) ==
    /\ LET p == upPower(powered, flipAt)
           exc == IF p.err # "none" THEN p.err
                  ELSE startDiscovery(discovering, error)
       IN  /\ powered' = p.powered
           /\ discovering' = IF p.err # "none" THEN discovering
                              ELSE (discovering \/ exc = "none")
           /\ lastHci' = [HciOp("up", NoMAC, powered, exc = "none")
                             EXCEPT !.err = exc, !.powerChange = p.powerChange,
                                    !.polls = p.polls, !.flipAt = flipAt,
                                    !.waitedMs = p.waitedMs,
                                    !.gerror = error]
    /\ UNCHANGED <<now, m_seenClassicDevices, confirmedAt, m_devices,
                   dbusObjects, lescanPc, lescanWait, seenEvidence, vdevVars, otherVars,
                   loopVars>>

\* m_resetCondition.broadcast(): a lescan that waits is woken
Broadcast(wait) == [wait EXCEPT !.woken = TRUE]

\* faulty variant: down does not broadcast the reset condition
downReset_None(pc, wait) == wait

\* the broadcast of down() on the wait of a lescan in progress
downReset(pc, wait) == IF pc = "waiting" THEN Broadcast(wait) ELSE wait

\* down(); BlueZ ends the discovery of an adapter that is switched off
down(flipAt) ==
    /\ lescanWait' = downReset(lescanPc, lescanWait)
    /\ LET p == downPower(powered, flipAt) IN
       /\ powered' = p.powered
       /\ discovering' = (discovering /\ p.powered)
       /\ lastHci' = [HciOp("down", NoMAC, powered, p.err = "none")
                         EXCEPT !.err = p.err, !.powerChange = p.powerChange,
                                !.polls = p.polls, !.flipAt = flipAt,
                                !.waitedMs = p.waitedMs]
    /\ UNCHANGED <<now, m_seenClassicDevices, confirmedAt, m_devices,
                   dbusObjects, lescanPc, seenEvidence, vdevVars, otherVars, loopVars>>

\* the longest timeout a lescan is called with (s)
MaxScanTimeout == 30

\* the adapter as found by the constructor: powered or not, discovering or not
InitPower ==
    /\ m_virtualDevicesMap = <<>>
    /\ deviceCache = {}
    /\ m_pollingKeeper = {}
    /\ installed = FALSE
    /\ m_stopControl = "run"
    /\ dispatched = <<>>
    /\ lastOp = Op("init", NoID, "none")
    /\ now = 0
    /\ m_seenClassicDevices = <<>>
    /\ confirmedAt = <<>>
    /\ m_devices = <<>>
    /\ dbusObjects = <<>>
    /\ seenEvidence = <<>>
    /\ lescanPc = "idle"
    /\ lescanWait = NotWaiting
    /\ devicesLock = "free"
    /\ loopPc = LoopIdle
    /\ OtherIdle
    /\ lastHci = HciOp("init", NoMAC, FALSE, FALSE)
    /\ powered \in BOOLEAN
    /\ discovering \in {d \in BOOLEAN : d => powered}

Up == \E flipAt \in FlipTimes, error \in GErrors : up(flipAt, error)
Down == \E flipAt \in FlipTimes : down(flipAt)
LescanTimed ==
    \E timeout \in {0, MaxScanTimeout}, error \in GErrors :
        lescanStart(timeout, error)

NextPower ==
    \/ Up
    \/ Down
    \/ LescanTimed
    \/ lescanFinish
    \/ BleTick

\* the adapter: power transitions against scans and time
SpecPower == InitPower /\ [][NextPower]_vars

---------------------------------------------------------------------------
(* DBusHciInterface: the event loop thread runs the handlers of one        *)
(* g-properties-changed signal one after the other, onDeviceRSSIChanged    *)
(* (connected when the record is made) before                              *)
(* onDeviceManufacturerDataRecieved (connected by watch), while a caller   *)
(* thread works on the device map under m_devices.first.                   *)

\* faulty variant: onDeviceRSSIChanged returns with the lock held
rssiUnlock_Kept(lock) == lock

\* the ScopedLock of onDeviceRSSIChanged ends with its block
rssiUnlock(lock) == "free"

\* the signal of the object at path reaches the event loop
loopSignal(path, changed) ==
    /\ loopPc.pc = "idle"
    /\ path \in DOMAIN dbusObjects
    /\ loopPc' = [pc |-> "rssi", path |-> path, changed |-> changed]
    /\ UNCHANGED <<now, m_seenClassicDevices, confirmedAt, bleVars, lastHci,
                   vdevVars, otherVars, powerVars, devicesLock>>

\* onDeviceRSSIChanged up to its ScopedLock
loopRssiEnter ==
    /\ loopPc.pc = "rssi"
    /\ IF "RSSI" \in loopPc.changed
       THEN /\ devicesLock = "free"
            /\ devicesLock' = "loop"
            /\ loopPc' = [loopPc EXCEPT !.pc = "rssiLocked"]
       ELSE /\ loopPc' = [loopPc EXCEPT !.pc = "manufacturer"]
            /\ UNCHANGED devicesLock
    /\ UNCHANGED <<now, m_seenClassicDevices, confirmedAt, bleVars, lastHci,
                   vdevVars, otherVars, powerVars>>

\* onDeviceRSSIChanged under its ScopedLock, to its return
loopRssiUpdate ==
    /\ loopPc.pc = "rssiLocked"
    /\ m_devices' = onDeviceRSSIChanged(m_devices, macAddress(loopPc.path),
                                        loopPc.changed, now)
    /\ devicesLock' = rssiUnlock(devicesLock)
    /\ loopPc' = [loopPc EXCEPT !.pc = "manufacturer"]
    /\ UNCHANGED <<now, m_seenClassicDevices, confirmedAt, dbusObjects,
                   discovering, lescanPc, seenEvidence, lastHci, vdevVars, otherVars,
                   powerVars>>

\* onDeviceManufacturerDataRecieved, connected when the device is watched:
\* processManufacturerData calls the callback of the watch
loopManufacturer ==
    /\ loopPc.pc = "manufacturer"
    /\ LET mac == macAddress(loopPc.path)
           calls == /\ mac \in DOMAIN m_devices
                    /\ isWatched(m_devices[mac])
                    /\ m_devices[mac].device = loopPc.path
                    /\ "ManufacturerData" \in loopPc.changed
       IN  loopPc' = IF calls THEN [loopPc EXCEPT !.pc = "callback"]
                     ELSE LoopIdle
    /\ UNCHANGED <<now, m_seenClassicDevices, confirmedAt, bleVars, lastHci,
                   vdevVars, otherVars, powerVars, devicesLock>>

\* the callback, on the event loop thread, calls unwatch of the adapter
callbackUnwatch(address) ==
    /\ loopPc.pc = "callback"
    /\ devicesLock = "free"
    /\ m_devices' = unwatchDevices(m_devices, address)
    /\ lastHci' = HciOp("unwatch", address, FALSE, TRUE)
    /\ loopPc' = [loopPc EXCEPT !.pc = "called"]
    /\ UNCHANGED <<now, m_seenClassicDevices, confirmedAt, dbusObjects,
                   discovering, lescanPc, seenEvidence, vdevVars, otherVars, powerVars,
                   devicesLock>>

\* the callback, on the event loop thread, calls watch of the adapter
callbackWatch(address, callBack) ==
    /\ loopPc.pc = "callback"
    /\ devicesLock = "free"
    /\ LET r == watchDevices(m_devices, address, callBack, TRUE) IN
       /\ m_devices' = r.devices
       /\ lastHci' = [HciOp("watch", address, TRUE, r.err = "none")
                         EXCEPT !.err = r.err, !.callBack = callBack]
    /\ loopPc' = [loopPc EXCEPT !.pc = "called"]
    /\ UNCHANGED <<now, m_seenClassicDevices, confirmedAt, dbusObjects,
                   discovering, lescanPc, seenEvidence, vdevVars, otherVars, powerVars,
                   devicesLock>>

\* the callback returns and the handler with it
callbackReturn ==
    /\ loopPc.pc \in {"callback", "called"}
    /\ loopPc' = LoopIdle
    /\ UNCHANGED <<now, m_seenClassicDevices, confirmedAt, bleVars, lastHci,
                   vdevVars, otherVars, powerVars, devicesLock>>

\* a caller thread takes m_devices.first in watch or unwatch
callerLock ==
    /\ devicesLock = "free"
    /\ devicesLock' = "caller"
    /\ UNCHANGED <<now, m_seenClassicDevices, confirmedAt, bleVars, lastHci,
                   vdevVars, otherVars, powerVars, loopPc>>

\* watch(address, callBack) of the caller thread under its lock
callerWatch(address, callBack) ==
    /\ devicesLock = "caller"
    /\ devicesLock' = "free"
    /\ LET r == watchDevices(m_devices, address, callBack, TRUE) IN
       /\ m_devices' = r.devices
       /\ lastHci' = [HciOp("watch", address, TRUE, r.err = "none")
                         EXCEPT !.err = r.err, !.callBack = callBack]
    /\ UNCHANGED <<now, m_seenClassicDevices, confirmedAt, dbusObjects,
                   discovering, lescanPc, seenEvidence, vdevVars, otherVars, powerVars,
                   loopPc>>

\* unwatch(address) of the caller thread under its lock
callerUnwatch(address) ==
    /\ devicesLock = "caller"
    /\ devicesLock' = "free"
    /\ m_devices' = unwatchDevices(m_devices, address)
    /\ lastHci' = HciOp("unwatch", address, FALSE, TRUE)
    /\ UNCHANGED <<now, m_seenClassicDevices, confirmedAt, dbusObjects,
                   discovering, lescanPc, seenEvidence, vdevVars, otherVars, powerVars,
                   loopPc>>

LoopSignal ==
    \E path \in Paths, changed \in SUBSET PropertyNames : loopSignal(path, changed)
CallbackUnwatch == \E address \in MACs : callbackUnwatch(address)
CallbackWatch ==
    \E address \in MACs, callBack \in WatchCallbacks :
        callbackWatch(address, callBack)
CallerWatch ==
    \E address \in MACs, callBack \in WatchCallbacks :
        callerWatch(address, callBack)
CallerUnwatch == \E address \in MACs : callerUnwatch(address)

NextLoop ==
    \/ LoopSignal
    \/ loopRssiEnter
    \/ loopRssiUpdate
    \/ loopManufacturer
    \/ CallbackUnwatch
    \/ CallbackWatch
    \/ callbackReturn
    \/ callerLock
    \/ CallerWatch
    \/ CallerUnwatch
    \/ BleTick

\* the adapter: the event loop thread against a caller thread
SpecLoop == InitBle /\ [][NextLoop]_vars

---------------------------------------------------------------------------
(* DBusHciInterfaceManager::lookup, called by several threads *)

\* faulty variant: lookup runs without m_mutex
managerLock_None(mutex, t) == [ok |-> TRUE, mutex |-> mutex]

\* ScopedLock<FastMutex> guard(m_mutex) of thread t
managerLock(mutex, t) == [ok |-> mutex = "free", mutex |-> t]
managerUnlock(mutex, t) == IF mutex = t THEN "free" ELSE mutex

\* lookup(name) of thread t takes the lock
lookupLock(t, name) ==
    /\ lookupPc[t].pc = "idle"
    /\ LET l == managerLock(m_mutex, t) IN
       /\ l.ok
       /\ m_mutex' = l.mutex
    /\ lookupPc' = [lookupPc EXCEPT
                       ![t] = [pc |-> "find", name |-> name, result |-> NoAdapter]]
    /\ UNCHANGED <<vdevVars, now, m_seenClassicDevices, confirmedAt, bleVars,
                   lastHci, powerVars, loopVars, m_interfaces, constructed,
                   returned, poolVars, uplinkVars, handlerVars,
                   lockVars>>

\* m_interfaces.find(name): the adapter found is returned
lookupFind(t) ==
    /\ lookupPc[t].pc = "find"
    /\ LET name == lookupPc[t].name IN
       IF name \in DOMAIN m_interfaces
       THEN /\ lookupPc' = [lookupPc EXCEPT
                               ![t] = [pc |-> "idle", name |-> name,
                                       result |-> m_interfaces[name]]]
            /\ returned' = returned \cup {<<name, m_interfaces[name]>>}
            /\ m_mutex' = managerUnlock(m_mutex, t)
       ELSE /\ lookupPc' = [lookupPc EXCEPT ![t].pc = "create"]
            /\ UNCHANGED <<returned, m_mutex>>
    /\ UNCHANGED <<vdevVars, now, m_seenClassicDevices, confirmedAt, bleVars,
                   lastHci, powerVars, loopVars, m_interfaces, constructed,
                   poolVars, uplinkVars, handlerVars,
                   lockVars>>

\* new DBusHciInterface(name, ...), emplace and return; ctorOk: the
\* constructor has not thrown
lookupCreate(t, ctorOk) ==
    /\ lookupPc[t].pc = "create"
    /\ LET name == lookupPc[t].name
           newHci == Len(constructed) + 1
       IN  IF ctorOk
           THEN /\ constructed' = Append(constructed, name)
                /\ m_interfaces' = Emplace(m_interfaces, name, newHci)
                /\ returned' = returned \cup {<<name, newHci>>}
                /\ lookupPc' = [lookupPc EXCEPT
                                   ![t] = [pc |-> "idle", name |-> name,
                                           result |-> newHci]]
           ELSE /\ lookupPc' = [lookupPc EXCEPT ![t].pc = "idle"]
                /\ UNCHANGED <<constructed, m_interfaces, returned>>
    /\ m_mutex' = managerUnlock(m_mutex, t)
    /\ UNCHANGED <<vdevVars, now, m_seenClassicDevices, confirmedAt, bleVars,
                   lastHci, powerVars, loopVars, poolVars, uplinkVars, handlerVars,
                   lockVars>>

LookupLock == \E t \in Threads, name \in AdapterNames : lookupLock(t, name)
LookupFind == \E t \in Threads : lookupFind(t)
LookupCreate == \E t \in Threads, ctorOk \in BOOLEAN : lookupCreate(t, ctorOk)

NextManager ==
    \/ LookupLock
    \/ LookupFind
    \/ LookupCreate

---------------------------------------------------------------------------
(* The context pool of GWServerConnector: the contexts of the requests that
   wait for their response, by correlation id *)

\* the outcome the waiter is given by the operation that took its entry
Outcome(op) ==
    CASE op = "fulfill" -> "Fulfilled"
      [] op = "reap" -> "TimedOut"
      [] op = "cancel_all" -> "Cancelled"

\* the entry of id has been taken by op at time t
Taken(history, id, op, t) ==
    [history EXCEPT ![id] = Append(@, [op |-> op, at |-> t])]

Remove(contexts, ids) ==
    [id \in DOMAIN contexts \ ids |-> contexts[id]]

\* faulty variant: the entry stays in the map when it is taken
compareAndRemove_Kept(contexts, id) ==
    [ok |-> id \in DOMAIN contexts, contexts |-> contexts]

\* compare-and-remove of the entry of id: only one caller gets it
compareAndRemove(contexts, id) ==
    [ok |-> id \in DOMAIN contexts, contexts |-> Remove(contexts, {id})]

\* register(ctx) with the next correlation id: the deadline is
\* now + resend_timeout; a full pool fails with Capacity and keeps no entry
register ==
    /\ issued < MaxIds
    /\ now + ResendTimeout + PoolTickSecs <= MaxTime
    /\ issued' = issued + 1
    /\ IF Cardinality(DOMAIN m_contextPoll) < PoolCapacity
       THEN /\ m_contextPoll' =
                   Emplace(m_contextPoll, issued + 1, now + ResendTimeout)
            /\ deadlines' = Emplace(deadlines, issued + 1, now + ResendTimeout)
       ELSE UNCHANGED <<m_contextPoll, deadlines>>
    /\ UNCHANGED <<vdevVars, now, m_seenClassicDevices, confirmedAt, bleVars,
                   lastHci, powerVars, loopVars, mgrVars, uplinkVars, handlerVars, lockVars, takers, delivered>>

\* fulfill(correlation_id, response): takes the entry out of the map
fulfill(id) ==
    /\ LET r == compareAndRemove(m_contextPoll, id) IN
       /\ r.ok
       /\ m_contextPoll' = r.contexts
    /\ takers' = Taken(takers, id, "fulfill", now)
    /\ UNCHANGED <<vdevVars, now, m_seenClassicDevices, confirmedAt, bleVars,
                   lastHci, powerVars, loopVars, mgrVars, uplinkVars, handlerVars, lockVars, issued, deadlines,
                   delivered>>

\* reap(now), one entry of it: takes an entry whose deadline has passed
reap(id) ==
    /\ id \in DOMAIN m_contextPoll
    /\ m_contextPoll[id] <= now
    /\ LET r == compareAndRemove(m_contextPoll, id) IN
       /\ r.ok
       /\ m_contextPoll' = r.contexts
    /\ takers' = Taken(takers, id, "reap", now)
    /\ UNCHANGED <<vdevVars, now, m_seenClassicDevices, confirmedAt, bleVars,
                   lastHci, powerVars, loopVars, mgrVars, uplinkVars, handlerVars, lockVars, issued, deadlines,
                   delivered>>

\* cancel_all(reason): takes every entry of the map
cancel_all ==
    /\ m_contextPoll # <<>>
    /\ m_contextPoll' = Remove(m_contextPoll, DOMAIN m_contextPoll)
    /\ takers' = [id \in CorrelationIds |->
                      IF id \in DOMAIN m_contextPoll
                      THEN Append(takers[id], [op |-> "cancel_all", at |-> now])
                      ELSE takers[id]]
    /\ UNCHANGED <<vdevVars, now, m_seenClassicDevices, confirmedAt, bleVars,
                   lastHci, powerVars, loopVars, mgrVars, uplinkVars, handlerVars, lockVars, issued, deadlines,
                   delivered>>

\* the operation that took the entry of id gives its outcome to the waiter
wake(id) ==
    /\ Len(delivered[id]) < Len(takers[id])
    /\ delivered' =
           [delivered EXCEPT
               ![id] = Append(@, Outcome(takers[id][Len(delivered[id]) + 1].op))]
    /\ UNCHANGED <<vdevVars, now, m_seenClassicDevices, confirmedAt, bleVars,
                   lastHci, powerVars, loopVars, mgrVars, uplinkVars, handlerVars, lockVars, m_contextPoll, issued,
                   deadlines, takers>>

\* the clock of the reaper's timer advances
PoolTick ==
    /\ now + PoolTickSecs <= MaxTime
    /\ now' = now + PoolTickSecs
    /\ UNCHANGED <<vdevVars, m_seenClassicDevices, confirmedAt, bleVars,
                   lastHci, powerVars, loopVars, otherVars>>

Fulfill == \E id \in CorrelationIds : fulfill(id)
Reap == \E id \in CorrelationIds : reap(id)
Wake == \E id \in CorrelationIds : wake(id)

NextPool ==
    \/ register
    \/ Fulfill
    \/ Reap
    \/ cancel_all
    \/ Wake
    \/ PoolTick

---------------------------------------------------------------------------
(* GWServerConnector: the sender thread, the receiver thread and the socket
   they share *)

hciFrame == <<now, m_seenClassicDevices, confirmedAt, bleVars, lastHci,
              powerVars, loopVars>>
conFrame == <<handlerVars, lockVars>>

\* faulty variant: the mutex is not taken
uplinkLock_None(mutex, t) == [ok |-> TRUE, mutex |-> mutex]

\* Poco::FastMutex::ScopedLock of thread t
uplinkLock(mutex, t) == [ok |-> mutex = "free", mutex |-> t]

\* the socket is open and its connection stands
Alive(socket) ==
    /\ socket \in openSockets
    /\ socket \notin deadSockets
    /\ reachable

\* disconnectUnlocked: the socket of the connector is closed
closeSocket(sockets, socket) == sockets \ {socket}

\* faulty variant: Ready without a RegisterAck
registerAcked_Always(socket) == TRUE

\* registerUnlocked: the RegisterAck arrives within receive_timeout
registerAcked(socket) == Alive(socket)

\* faulty variant: the newest message is taken
dequeueIndex_Newest(queue) == Len(queue)

\* dequeue: the position of the message taken from the queue
dequeueIndex(queue) == 1

\* the queue without its i-th message
Without(queue, i) ==
    SubSeq(queue, 1, i - 1) \o SubSeq(queue, i + 1, Len(queue))

\* enqueue(msg): the oldest message is dropped when the capacity is exceeded
enqueueMsg(queue, msg) ==
    IF Len(queue) >= QueueCapacity
    THEN Append(Tail(queue), msg)
    ELSE Append(queue, msg)

\* markDisconnected: the sender is asked to reconnect
markDisconnected ==
    /\ requestReconnect' = TRUE
    /\ uplinkState' = "Disconnected"

\* reconnect, first lock: the sender takes m_sendMutex
reconnectLockSend ==
    /\ ~m_stop
    /\ senderPc.pc = "idle"
    /\ requestReconnect
    /\ LET l == uplinkLock(m_sendMutex, "sender") IN
       /\ l.ok
       /\ m_sendMutex' = l.mutex
    /\ senderPc' = [senderPc EXCEPT !.pc = "lockReceive"]
    /\ lastFault' = "none"
    /\ UNCHANGED <<vdevVars, hciFrame, mgrVars, poolVars, conFrame, uplinkState, m_socket,
                   openSockets, opened, deadSockets, m_receiveMutex, receiverPc,
                   requestReconnect, m_connectedEvent, m_stop, reachable,
                   faults, m_outputQueue, enqueued, wire, acked>>

\* reconnect, second lock: the sender takes m_receiveMutex
reconnectLockReceive ==
    /\ senderPc.pc = "lockReceive"
    /\ LET l == uplinkLock(m_receiveMutex, "sender") IN
       /\ l.ok
       /\ m_receiveMutex' = l.mutex
    /\ senderPc' = [senderPc EXCEPT !.pc = "disconnect"]
    /\ lastFault' = "none"
    /\ UNCHANGED <<vdevVars, hciFrame, mgrVars, poolVars, conFrame, uplinkState, m_socket,
                   openSockets, opened, deadSockets, m_sendMutex, receiverPc,
                   requestReconnect, m_connectedEvent, m_stop, reachable,
                   faults, m_outputQueue, enqueued, wire, acked>>

\* disconnectUnlocked: the old socket is closed
disconnectUnlocked ==
    /\ senderPc.pc = "disconnect"
    /\ openSockets' = closeSocket(openSockets, m_socket)
    /\ deadSockets' = deadSockets \ {m_socket}
    /\ m_socket' = NoSocket
    /\ uplinkState' = "Disconnected"
    /\ requestReconnect' = FALSE
    /\ m_connectedEvent' = FALSE
    /\ senderPc' = [senderPc EXCEPT !.pc = "connect"]
    /\ lastFault' = "none"
    /\ UNCHANGED <<vdevVars, hciFrame, mgrVars, poolVars, conFrame, opened, m_sendMutex,
                   m_receiveMutex, receiverPc, m_stop, reachable, faults,
                   m_outputQueue, enqueued, wire, acked>>

\* connectUnlocked: a new WebSocket is opened, or the attempt fails and is
\* made again after retry_connect_timeout
connectUnlocked ==
    /\ ~m_stop
    /\ senderPc.pc = "connect"
    /\ IF reachable
       THEN LET socket == opened + 1 IN
            /\ m_socket' = socket
            /\ opened' = socket
            /\ openSockets' = openSockets \cup {socket}
            /\ uplinkState' = "Connecting"
            /\ senderPc' = [senderPc EXCEPT !.pc = "register"]
            /\ lastFault' = "none"
       ELSE /\ lastFault' = "connect"
            /\ UNCHANGED <<m_socket, openSockets, opened, opened, uplinkState,
                           senderPc>>
    /\ UNCHANGED <<vdevVars, hciFrame, mgrVars, poolVars, conFrame, deadSockets,
                   m_sendMutex, m_receiveMutex, receiverPc, requestReconnect,
                   m_connectedEvent, m_stop, reachable, faults, m_outputQueue,
                   enqueued, wire, acked>>

\* registerUnlocked, first half: Register is sent
registerSend ==
    /\ ~m_stop
    /\ senderPc.pc = "register"
    /\ uplinkState' = "Registering"
    /\ senderPc' = [senderPc EXCEPT !.pc = "awaitAck"]
    /\ lastFault' = "none"
    /\ UNCHANGED <<vdevVars, hciFrame, mgrVars, poolVars, conFrame, m_socket, openSockets, opened,
                   deadSockets, m_sendMutex, m_receiveMutex, receiverPc,
                   requestReconnect, m_connectedEvent, m_stop, reachable,
                   faults, m_outputQueue, enqueued, wire, acked>>

\* registerUnlocked, second half: with the RegisterAck the uplink is Ready
\* and both mutexes are released; without it the socket is closed and the
\* connect is made again
registerAwait ==
    /\ ~m_stop
    /\ senderPc.pc = "awaitAck"
    /\ IF registerAcked(m_socket)
       THEN /\ acked' = IF Alive(m_socket) THEN acked \cup {m_socket} ELSE acked
            /\ uplinkState' = "Ready"
            /\ m_connectedEvent' = TRUE
            /\ m_sendMutex' = "free"
            /\ m_receiveMutex' = "free"
            /\ senderPc' = SenderIdle
            /\ lastFault' = "none"
            /\ UNCHANGED <<m_socket, openSockets, deadSockets>>
       ELSE /\ openSockets' = closeSocket(openSockets, m_socket)
            /\ deadSockets' = deadSockets \ {m_socket}
            /\ m_socket' = NoSocket
            /\ uplinkState' = "Disconnected"
            /\ senderPc' = [senderPc EXCEPT !.pc = "connect"]
            /\ lastFault' = "register"
            /\ UNCHANGED <<acked, m_connectedEvent, m_sendMutex, m_receiveMutex>>
    /\ UNCHANGED <<vdevVars, hciFrame, mgrVars, poolVars, conFrame, opened, receiverPc,
                   requestReconnect, m_stop, reachable, faults, m_outputQueue,
                   enqueued, wire>>

\* forwardOutputQueue: the sender takes m_sendMutex and a message of the
\* queue, or a ping frame when the queue is empty
forwardLock ==
    /\ ~m_stop
    /\ senderPc.pc = "idle"
    /\ ~requestReconnect
    /\ uplinkState = "Ready"
    /\ LET l == uplinkLock(m_sendMutex, "sender") IN
       /\ l.ok
       /\ m_sendMutex' = l.mutex
    /\ IF m_outputQueue = <<>>
       THEN /\ senderPc' = [pc |-> "sending", msg |-> NoMsg]
            /\ UNCHANGED m_outputQueue
       ELSE LET i == dequeueIndex(m_outputQueue) IN
            /\ senderPc' = [pc |-> "sending", msg |-> m_outputQueue[i]]
            /\ m_outputQueue' = Without(m_outputQueue, i)
    /\ lastFault' = "none"
    /\ UNCHANGED <<vdevVars, hciFrame, mgrVars, poolVars, conFrame, uplinkState, m_socket,
                   openSockets, opened, deadSockets, m_receiveMutex, receiverPc,
                   requestReconnect, m_connectedEvent, m_stop, reachable,
                   faults, enqueued, wire, acked>>

\* sendMessageUnlocked: the frame is written to the socket; a failure asks
\* for a reconnect
forwardWrite ==
    /\ senderPc.pc = "sending"
    /\ IF Alive(m_socket)
       THEN /\ wire' = IF senderPc.msg = NoMsg
                       THEN wire
                       ELSE Append(wire, [socket |-> m_socket,
                                          msg |-> senderPc.msg])
            /\ lastFault' = "none"
            /\ UNCHANGED <<requestReconnect, uplinkState>>
       ELSE /\ markDisconnected
            /\ lastFault' = "send"
            /\ UNCHANGED wire
    /\ m_sendMutex' = "free"
    /\ senderPc' = SenderIdle
    /\ UNCHANGED <<vdevVars, hciFrame, mgrVars, poolVars, conFrame, m_socket, openSockets, opened,
                   deadSockets, m_receiveMutex, receiverPc, m_connectedEvent,
                   m_stop, reachable, faults, m_outputQueue, enqueued, acked>>

\* runReceiver: the connected event lets the receiver poll the socket
receiverConnected ==
    /\ ~m_stop
    /\ receiverPc = "waitConnected"
    /\ m_connectedEvent
    /\ m_connectedEvent' = FALSE
    /\ receiverPc' = "poll"
    /\ lastFault' = "none"
    /\ UNCHANGED <<vdevVars, hciFrame, mgrVars, poolVars, conFrame, uplinkState, m_socket,
                   openSockets, opened, deadSockets, m_sendMutex, m_receiveMutex,
                   senderPc, requestReconnect, m_stop, reachable, faults,
                   m_outputQueue, enqueued, wire, acked>>

\* runReceiver: the socket is readable, the receiver takes m_receiveMutex
receiverLock ==
    /\ ~m_stop
    /\ receiverPc = "poll"
    /\ LET l == uplinkLock(m_receiveMutex, "receiver") IN
       /\ l.ok
       /\ m_receiveMutex' = l.mutex
    /\ receiverPc' = "reading"
    /\ lastFault' = "none"
    /\ UNCHANGED <<vdevVars, hciFrame, mgrVars, poolVars, conFrame, uplinkState, m_socket,
                   openSockets, opened, deadSockets, m_sendMutex, senderPc,
                   requestReconnect, m_connectedEvent, m_stop, reachable,
                   faults, m_outputQueue, enqueued, wire, acked>>

Frames == {"message", "pong", "oversized", "unparsable"}

\* receiveMessageUnlocked: one frame is read and parsed; a read failure, an
\* oversized frame or a parse error asks for a reconnect
receiverRead(frame) ==
    /\ receiverPc = "reading"
    /\ frame \in {"oversized", "unparsable"} => faults < MaxFaults
    /\ LET fault == IF ~Alive(m_socket) THEN "read"
                    ELSE IF frame \in {"oversized", "unparsable"} THEN frame
                    ELSE "none"
       IN  /\ lastFault' = fault
           /\ faults' = IF fault \in {"oversized", "unparsable"}
                         THEN faults + 1 ELSE faults
           /\ IF fault = "none"
              THEN /\ receiverPc' = "poll"
                   /\ UNCHANGED <<requestReconnect, uplinkState>>
              ELSE /\ markDisconnected
                   /\ receiverPc' = "waitConnected"
    /\ m_receiveMutex' = "free"
    /\ UNCHANGED <<vdevVars, hciFrame, mgrVars, poolVars, conFrame, m_socket, openSockets, opened,
                   deadSockets, m_sendMutex, senderPc, m_connectedEvent, m_stop,
                   reachable, m_outputQueue, enqueued, wire, acked>>

\* sendMessage of any thread: the message is put into the output queue
enqueue ==
    /\ ~m_stop
    /\ enqueued < MaxMsgs
    /\ enqueued' = enqueued + 1
    /\ m_outputQueue' = enqueueMsg(m_outputQueue, enqueued + 1)
    /\ UNCHANGED <<vdevVars, hciFrame, mgrVars, poolVars, conFrame, uplinkState, m_socket,
                   openSockets, opened, deadSockets, m_sendMutex, m_receiveMutex,
                   senderPc, receiverPc, requestReconnect, m_connectedEvent,
                   m_stop, reachable, faults, wire, acked, lastFault>>

\* the connection of the open socket is lost
killSocket ==
    /\ faults < MaxFaults
    /\ m_socket \in openSockets \ deadSockets
    /\ deadSockets' = deadSockets \cup {m_socket}
    /\ faults' = faults + 1
    /\ UNCHANGED <<vdevVars, hciFrame, mgrVars, poolVars, conFrame, uplinkState, m_socket,
                   openSockets, opened, m_sendMutex, m_receiveMutex, senderPc,
                   receiverPc, requestReconnect, m_connectedEvent, m_stop,
                   reachable, m_outputQueue, enqueued, wire, acked, lastFault>>

\* the server stops answering, or answers again
serverFlip ==
    /\ reachable => faults < MaxFaults
    /\ reachable' = ~reachable
    /\ faults' = IF reachable THEN faults + 1 ELSE faults
    /\ UNCHANGED <<vdevVars, hciFrame, mgrVars, poolVars, conFrame, uplinkState, m_socket,
                   openSockets, opened, deadSockets, m_sendMutex, m_receiveMutex,
                   senderPc, receiverPc, requestReconnect, m_connectedEvent,
                   m_stop, m_outputQueue, enqueued, wire, acked, lastFault>>

\* GWServerConnector::stop: the flag is set and the socket is closed
connectorStop ==
    /\ ~m_stop
    /\ m_stop' = TRUE
    /\ openSockets' = closeSocket(openSockets, m_socket)
    /\ deadSockets' = deadSockets \ {m_socket}
    /\ UNCHANGED <<vdevVars, hciFrame, mgrVars, poolVars, conFrame, uplinkState, m_socket,
                   opened, m_sendMutex, m_receiveMutex, senderPc, receiverPc,
                   requestReconnect, m_connectedEvent, reachable, faults,
                   m_outputQueue, enqueued, wire, acked, lastFault>>

ReceiverRead == \E frame \in Frames : receiverRead(frame)

SenderStep ==
    \/ reconnectLockSend
    \/ reconnectLockReceive
    \/ disconnectUnlocked
    \/ connectUnlocked
    \/ registerSend
    \/ registerAwait
    \/ forwardLock
    \/ forwardWrite

ReceiverStep ==
    \/ receiverConnected
    \/ receiverLock
    \/ ReceiverRead

NextUplink ==
    \/ reconnectLockSend
    \/ reconnectLockReceive
    \/ disconnectUnlocked
    \/ connectUnlocked
    \/ registerSend
    \/ registerAwait
    \/ forwardLock
    \/ forwardWrite
    \/ receiverConnected
    \/ receiverLock
    \/ ReceiverRead
    \/ enqueue
    \/ killSocket
    \/ serverFlip
    \/ connectorStop

---------------------------------------------------------------------------
(* VirtualDeviceManager: the command handlers, handleRemoteStatus and the loop
   of run() as threads that take m_lock *)

handlerFrame == <<m_virtualDevicesMap, installed, m_stopControl, dispatched,
                  lastOp, hciFrame, mgrVars, poolVars, uplinkVars, lockVars>>

LockedOps == {"listen", "accept", "unpair", "set-value", "scheduleAllEntries"}

\* faulty variant: the handlers run without m_lock
handlerLock_None(lock, t) == [ok |-> TRUE, lock |-> lock]

\* FastMutex::ScopedLock guard(m_lock) of thread t
handlerLock(lock, t) == [ok |-> lock = "free", lock |-> t]
handlerUnlock(lock, t) == IF lock = t THEN "free" ELSE lock

\* the handler of thread t has returned: op has completed on the ids
Completed(t, op, ids) ==
    /\ handlerPc' = [handlerPc EXCEPT ![t] = HandlerIdle]
    /\ m_lock' = handlerUnlock(m_lock, t)
    /\ reconciled' = [id \in DeviceIDs |->
                          IF id \in ids THEN op ELSE reconciled[id]]

\* DeviceManager::handleRemoteStatus of thread t, before scheduleAllEntries:
\* the paired set of the prefix is replaced, m_lock is not held
remoteStatusCache(t, devices) ==
    /\ installed
    /\ t # "run"
    /\ handlerPc[t].pc = "idle"
    /\ deviceCache' = markPairedPrefix(deviceCache, PREFIX_VIRTUAL_DEVICE, devices)
    /\ handlerPc' = [handlerPc EXCEPT
                        ![t] = [HandlerIdle EXCEPT !.op = "scheduleAllEntries",
                                                   !.pc = "lock"]]
    /\ UNCHANGED <<handlerFrame, m_pollingKeeper, m_lock, reconciled>>

\* a command reaches thread t, or run() starts an iteration of its loop
handlerCall(t, op, id) ==
    /\ installed
    /\ handlerPc[t].pc = "idle"
    /\ t = "run" => op = "scheduleAllEntries"
    /\ op = "scheduleAllEntries" => t = "run"
    /\ op \in {"scheduleAllEntries", "listen"} <=> id = NoID
    /\ handlerPc' = [handlerPc EXCEPT
                        ![t] = [HandlerIdle EXCEPT !.op = op, !.pc = "lock",
                                                   !.id = id]]
    /\ UNCHANGED <<handlerFrame, deviceCache, m_pollingKeeper, m_lock,
                   reconciled>>

\* the handler of thread t takes m_lock
handlerEnter(t) ==
    /\ handlerPc[t].pc = "lock"
    /\ LET l == handlerLock(m_lock, t) IN
       /\ l.ok
       /\ m_lock' = l.lock
    /\ handlerPc' = [handlerPc EXCEPT
                        ![t].pc = "locked",
                        ![t].todo = DOMAIN m_virtualDevicesMap]
    /\ UNCHANGED <<handlerFrame, deviceCache, m_pollingKeeper, reconciled>>

\* doListenCommand and doSetValueCommand: neither DeviceCache nor the polling
\* keeper is changed
handlerRead(t) ==
    /\ handlerPc[t].pc = "locked"
    /\ handlerPc[t].op \in {"listen", "set-value"}
    /\ Completed(t, handlerPc[t].op, {})
    /\ UNCHANGED <<handlerFrame, deviceCache, m_pollingKeeper>>

\* doDeviceAcceptCommand and doUnpairCommand, first half: the lookup, then
\* markPaired or markUnpaired
handlerMark(t) ==
    /\ handlerPc[t].pc = "locked"
    /\ handlerPc[t].op \in {"accept", "unpair"}
    /\ LET id == handlerPc[t].id IN
       IF id \notin DOMAIN m_virtualDevicesMap
       THEN /\ Completed(t, handlerPc[t].op, {})
            /\ UNCHANGED deviceCache
       ELSE /\ deviceCache' = IF handlerPc[t].op = "accept"
                              THEN markPaired(deviceCache, id)
                              ELSE markUnpaired(deviceCache, id)
            /\ handlerPc' = [handlerPc EXCEPT ![t].pc = "marked"]
            /\ UNCHANGED <<m_lock, reconciled>>
    /\ UNCHANGED <<handlerFrame, m_pollingKeeper>>

\* doDeviceAcceptCommand and doUnpairCommand, second half: schedule or cancel
handlerKeep(t) ==
    /\ handlerPc[t].pc = "marked"
    /\ LET id == handlerPc[t].id IN
       /\ m_pollingKeeper' = IF handlerPc[t].op = "accept"
                             THEN KeeperSchedule(m_pollingKeeper, id)
                             ELSE KeeperCancel(m_pollingKeeper, id)
       /\ Completed(t, handlerPc[t].op, {id})
    /\ UNCHANGED <<handlerFrame, deviceCache>>

\* scheduleAllEntries, the next item of the loop: deviceCache()->paired
entryRead(t) ==
    /\ handlerPc[t].pc = "locked"
    /\ handlerPc[t].op = "scheduleAllEntries"
    /\ IF handlerPc[t].todo = {}
       THEN Completed(t, "scheduleAllEntries", DOMAIN m_virtualDevicesMap)
       ELSE LET id == CHOOSE i \in handlerPc[t].todo :
                         \A j \in handlerPc[t].todo : i[2] <= j[2]
            IN  /\ handlerPc' = [handlerPc EXCEPT
                                    ![t].pc = "read",
                                    ![t].id = id,
                                    ![t].paired = paired(deviceCache, id)]
                /\ UNCHANGED <<m_lock, reconciled>>
    /\ UNCHANGED <<handlerFrame, deviceCache, m_pollingKeeper>>

\* scheduleAllEntries, the item read: schedule or cancel
entryKeep(t) ==
    /\ handlerPc[t].pc = "read"
    /\ LET id == handlerPc[t].id IN
       /\ m_pollingKeeper' = IF handlerPc[t].paired
                             THEN KeeperSchedule(m_pollingKeeper, id)
                             ELSE KeeperCancel(m_pollingKeeper, id)
       /\ handlerPc' = [handlerPc EXCEPT
                           ![t].pc = "locked",
                           ![t].id = NoID,
                           ![t].paired = FALSE,
                           ![t].todo = @ \ {id}]
    /\ UNCHANGED <<handlerFrame, deviceCache, m_lock, reconciled>>

WatchAny ==
    \E address \in MACs, callBack \in WatchCallbacks, connected \in BOOLEAN :
        watch(address, callBack, connected)

NextWatch ==
    \/ ObjectAdded
    \/ WatchAny
    \/ Unwatch

\* the adapter: the watches of its callers on the devices of the map
SpecWatch == InitBle /\ [][NextWatch]_vars

\* the object manager of BlueZ serves every adapter: Device1 objects of
\* another adapter appear on the bus, and BlueZ removes objects on its own
\* (a temporary device, a removal another client asked for)
OtherAdapter == "hci1"
ForeignPaths == {createDevicePath(OtherAdapter, mac) : mac \in MACs}

\* BlueZ removes the object at path: the adapter has connected no handler
\* to object-removed
objectRemoved(path) ==
    /\ path \in DOMAIN dbusObjects
    /\ dbusObjects' = Drop(dbusObjects, {path})
    /\ lastHci' = HciOp("objectRemoved", macAddress(path), FALSE, FALSE)
    /\ UNCHANGED <<now, m_seenClassicDevices, confirmedAt, m_devices,
                   discovering, lescanPc, seenEvidence, vdevVars, extVars>>

ForeignObjectAdded ==
    \E path \in ForeignPaths, rssi \in RssiValues, proxyOk \in BOOLEAN :
        onDBusObjectAdded(path, rssi, proxyOk)
ObjectRemoved == \E path \in Paths \cup ForeignPaths : objectRemoved(path)

NextBleBus ==
    \/ ObjectAdded
    \/ ForeignObjectAdded
    \/ ObjectRemoved
    \/ LescanStart
    \/ lescanFinish
    \/ BleLeap

\* the adapter on a bus that other adapters and BlueZ itself change: the
\* objects that come and go, the scans and the long silence that erase records
SpecBleBus == InitBle /\ [][NextBleBus]_vars

\* a lescan whose discovery starts
LescanStarted == LescanStart /\ lescanPc' = "waiting"

\* the BLE device map when lescan is called again and again: a lescan that
\* waits returns when its timeout is over, and a new lescan, whose discovery
\* starts, follows
SpecBleLive ==
    /\ InitBle
    /\ [][NextBle]_vars
    /\ WF_vars(lescanFinish)
    /\ WF_vars(LescanStarted)

---------------------------------------------------------------------------
(* Configuration files of the model.  PairingFiles: devices that vary in   *)
(* identity, pairing and completeness, with the default module; a wrongly  *)
(* prefixed device_id comes in a file of its own.  ModuleFiles: one        *)
(* device whose module sections vary.                                      *)
DefaultModules == <<REACTION_NONE>>
PairingDeviceCfgs ==
    [enable : BOOLEAN, prefix : {PREFIX_VIRTUAL_DEVICE}, ident : Idents,
     paired : BOOLEAN, described : BOOLEAN, modules : {DefaultModules}]
WrongPrefixDeviceCfgs ==
    [enable : {TRUE}, prefix : {PREFIX_OTHER}, ident : Idents,
     paired : BOOLEAN, described : {TRUE}, modules : {DefaultModules}]
ModuleDeviceCfgs ==
    [enable : {TRUE}, prefix : {PREFIX_VIRTUAL_DEVICE}, ident : {1},
     paired : {FALSE}, described : {TRUE},
     modules : SeqsUpTo(ModuleCfgs, MaxModules)]
PairingFiles ==
    (SeqsUpTo(PairingDeviceCfgs, MaxCfg) \ {<<>>})
        \cup {<<c>> : c \in WrongPrefixDeviceCfgs}
ModuleFiles == {<<c>> : c \in ModuleDeviceCfgs}

\* the ids a command or a remote status reaches this manager with
CommandIDs == {PREFIX_VIRTUAL_DEVICE} \X Idents

\* the manager and the adapter after construction, before any file is loaded
Init ==
    /\ m_virtualDevicesMap = <<>>
    /\ deviceCache = {}
    /\ m_pollingKeeper = {}
    /\ installed = FALSE
    /\ m_stopControl = "run"
    /\ dispatched = <<>>
    /\ lastOp = Op("init", NoID, "none")
    /\ now = 0
    /\ m_seenClassicDevices = <<>>
    /\ confirmedAt = <<>>
    /\ m_devices = <<>>
    /\ dbusObjects = <<>>
    /\ discovering = FALSE
    /\ lescanPc = "idle"
    /\ seenEvidence = <<>>
    /\ lastHci = HciOp("init", NoMAC, FALSE, FALSE)
    /\ ExtIdle

InstallPairing == \E file \in PairingFiles : installVirtualDevices(file)
InstallModules == \E file \in ModuleFiles : installVirtualDevices(file)
Accept == \E id \in CommandIDs : doDeviceAcceptCommand(id)
Unpair == \E id \in CommandIDs : doUnpairCommand(id)
SetValue ==
    \E id \in CommandIDs, m \in 0..MaxModules, v \in 1..MaxValue :
        doSetValueCommand(id, m, v)
RemoteStatus ==
    \E devices \in SUBSET CommandIDs :
        handleRemoteStatus(PREFIX_VIRTUAL_DEVICE, devices)

NextVdev ==
    \/ InstallPairing
    \/ doListenCommand
    \/ Accept
    \/ Unpair
    \/ SetValue
    \/ RemoteStatus
    \/ runIteration
    \/ stop
    \/ runExit

\* the virtual device manager: pairing and the polling schedule
SpecVdev == Init /\ [][NextVdev]_vars

NextSetValue ==
    \/ InstallModules
    \/ SetValue

\* the virtual device manager: devices of every module layout under set-value
SpecSetValue == Init /\ [][NextSetValue]_vars

\* the adapter: classic presence detection over time
SpecClassic == Init /\ [][NextClassic]_vars

\* the manager: lookups of several threads
SpecManager == Init /\ [][NextManager]_vars

\* the context pool: the receiver, the reaper's timer and a disconnect race
SpecPool == Init /\ [][NextPool]_vars

\* the same, with a timer that keeps running and threads that get their turn
SpecPoolLive ==
    SpecPool /\ WF_vars(PoolTick) /\ WF_vars(Reap) /\ WF_vars(Wake)

\* the configuration files of MaxCfg enabled devices with the idents 1, 2, ...
LockFiles ==
    {file \in PairingFiles :
        /\ Len(file) = MaxCfg
        /\ \A i \in 1..Len(file) :
               file[i].enable /\ file[i].described /\ file[i].ident = i}

InstallLocked == \E file \in LockFiles : installVirtualDevices(file)
RemoteStatusCache ==
    \E t \in HandlerThreads, devices \in SUBSET CommandIDs :
        remoteStatusCache(t, devices)
HandlerCall ==
    \E t \in HandlerThreads, op \in LockedOps, id \in CommandIDs \cup {NoID} :
        handlerCall(t, op, id)
HandlerEnter == \E t \in HandlerThreads : handlerEnter(t)
HandlerRead == \E t \in HandlerThreads : handlerRead(t)
HandlerMark == \E t \in HandlerThreads : handlerMark(t)
HandlerKeep == \E t \in HandlerThreads : handlerKeep(t)
EntryRead == \E t \in HandlerThreads : entryRead(t)
EntryKeep == \E t \in HandlerThreads : entryKeep(t)

NextHandlers ==
    \/ InstallLocked
    \/ RemoteStatusCache
    \/ HandlerCall
    \/ HandlerEnter
    \/ HandlerRead
    \/ HandlerMark
    \/ HandlerKeep
    \/ EntryRead
    \/ EntryKeep

\* the virtual device manager: its handlers as threads under m_lock
SpecHandlers == Init /\ [][NextHandlers]_vars

\* the uplink: the sender and the receiver against a failing link
SpecUplink == Init /\ [][NextUplink]_vars

\* the same, with both threads getting their turn and the sender getting the
\* receive mutex it is blocked on when the receiver keeps releasing it
SpecUplinkLive ==
    /\ SpecUplink
    /\ WF_vars(SenderStep)
    /\ SF_vars(reconnectLockReceive)
    /\ WF_vars(ReceiverStep)

---------------------------------------------------------------------------
(* DBusHciInterface: the mutexes of the adapter and the threads that take
   them. An operation is the sequence of its lock, unlock and branch points;
   every guard is a ScopedLock, so an exception releases what the thread
   holds and ends the operation. *)

Throw == 0    \* the branch target of an exception leaving the operation
Lock(m, to) == [do |-> "lock", lock |-> m, to |-> to]
Unlock(m, to) == [do |-> "unlock", lock |-> m, to |-> to]
Relock(m, to) == [do |-> "relock", lock |-> m, to |-> to]
Branch(to) == [do |-> "branch", lock |-> "none", to |-> to]

\* waitUntilPoweredChange under m_statusMutex, placed at index first of its
\* caller: tryWait gives the mutex back for the delay and takes it again,
\* then the next attempt polls Powered; matched is where the caller goes on
waitUntilPoweredChangeSteps(first, matched) ==
    <<Unlock("m_statusMutex", {first + 1}),
      Relock("m_statusMutex", {first, matched})>>

\* startDiscovery placed at index first: get_discovering, then the filter
\* and the start call, which may throw
startDiscoverySteps(first) ==
    <<Lock("m_discoveringMutex", {first + 1, Throw}),
      Unlock("m_discoveringMutex", {first + 2})>>

\* up, down, lescan, connect, watch, unwatch and detect as their callers run
\* them; the lock of m_statusMutex is followed by the first poll of Powered
callerProgram(op) ==
    CASE op = "up" ->
           <<Lock("m_statusMutex", {2, 4})>>
               \o waitUntilPoweredChangeSteps(2, 4)
               \o startDiscoverySteps(4)
               \o <<Unlock("m_statusMutex", {7})>>
      [] op = "down" ->
           <<Lock("m_statusMutex", {2, 4})>>
               \o waitUntilPoweredChangeSteps(2, 4)
               \o <<Unlock("m_statusMutex", {5})>>
      [] op = "lescan" ->
           startDiscoverySteps(1)
               \o <<Lock("m_devices", {4}), Unlock("m_devices", {5})>>
      [] op = "connect" ->
           <<Lock("m_devices", {2, Throw}), Unlock("m_devices", {3, Throw})>>
      [] op = "watch" ->
           <<Lock("m_devices", {2, Throw}), Unlock("m_devices", {3})>>
      [] op = "unwatch" ->
           <<Lock("m_devices", {2}), Unlock("m_devices", {3})>>
      [] op = "detect" ->
           <<Lock("m_classicMutex", {2}), Unlock("m_classicMutex", {3})>>

\* faulty variant: the watch callback is called under the device map lock
handlerProgram_CallbackLocked(op) ==
    CASE op = "objectAdded" ->
           <<Branch({2, 4}), Lock("m_devices", {3}), Unlock("m_devices", {4})>>
      [] op = "rssiChanged" ->
           <<Branch({2, 4}), Lock("m_devices", {3}), Unlock("m_devices", {4})>>
      [] op = "manufacturerData" ->
           <<Branch({2, 6}), Lock("m_devices", {3, 5}),
             Lock("m_devices", {4}), Unlock("m_devices", {5}),
             Unlock("m_devices", {6})>>

\* the signal handlers as the event loop runs them: the handler returns at
\* once or goes on to its lock; the watch callback of manufacturer data
\* returns or calls watch or unwatch of the adapter
handlerProgram(op) ==
    CASE op = "objectAdded" ->
           <<Branch({2, 4}), Lock("m_devices", {3}), Unlock("m_devices", {4})>>
      [] op = "rssiChanged" ->
           <<Branch({2, 4}), Lock("m_devices", {3}), Unlock("m_devices", {4})>>
      [] op = "manufacturerData" ->
           <<Branch({2, 4}), Lock("m_devices", {3}), Unlock("m_devices", {4})>>

CallerOps == {"up", "down", "reset", "lescan", "connect", "watch", "unwatch",
              "detect"}
HandlerOps == {"objectAdded", "rssiChanged", "manufacturerData"}
Program(op) ==
    IF op \in HandlerOps THEN handlerProgram(op) ELSE callerProgram(op)

\* reset() is down() followed by up()
Running(op) ==
    IF op = "reset" THEN [ThreadIdle EXCEPT !.op = "down", !.pc = 1, !.then = "up"]
    ELSE [ThreadIdle EXCEPT !.op = op, !.pc = 1]

heldBy(t) == {m \in HciMutexes : hciLocks[m] = t}
releaseAll(locks, t) ==
    [m \in HciMutexes |-> IF locks[m] = t THEN "free" ELSE locks[m]]

\* the thread after an instruction that goes on at index pc of its
\* operation: at the end of down() within reset() it enters up(), at any
\* other end and after an exception it is idle
advance(pcOf, pc) ==
    IF pc = Throw THEN ThreadIdle
    ELSE IF pc <= Len(Program(pcOf.op)) THEN [pcOf EXCEPT !.pc = pc]
    ELSE IF pcOf.then # "none" THEN Running(pcOf.then)
    ELSE ThreadIdle

\* the mutexes after thread t went on at index pc: every guard is scoped
leave(locks, t, pc) == IF pc = Throw THEN releaseAll(locks, t) ELSE locks

\* a thread calls an operation of the adapter, or the event loop dispatches a
\* signal to its handler
hciCall(t, op) ==
    /\ threadPc[t] = ThreadIdle
    /\ (t = "loop") <=> (op \in HandlerOps)
    /\ threadPc' = [threadPc EXCEPT ![t] = Running(op)]
    /\ UNCHANGED <<hciLocks, lockOrder>>
    /\ UNCHANGED <<vdevVars, hciFrame, mgrVars, poolVars, uplinkVars,
                   handlerVars>>

\* the next instruction of the operation of thread t
hciStep(t) ==
    /\ threadPc[t] # ThreadIdle
    /\ LET me == threadPc[t]
           ins == Program(me.op)[me.pc]
       IN  CASE ins.do = "lock" ->
                  /\ hciLocks[ins.lock] = "free"
                  /\ lockOrder' = lockOrder \cup (heldBy(t) \X {ins.lock})
                  /\ \E pc \in ins.to :
                        /\ hciLocks' = leave([hciLocks EXCEPT ![ins.lock] = t],
                                             t, pc)
                        /\ threadPc' = [threadPc EXCEPT ![t] = advance(me, pc)]
             [] ins.do = "relock" ->
                  /\ hciLocks[ins.lock] = "free"
                  /\ lockOrder' = lockOrder \cup (heldBy(t) \X {ins.lock})
                  /\ IF me.polls + 1 >= CHANGE_POWER_ATTEMPTS
                     THEN /\ UNCHANGED hciLocks
                          /\ threadPc' = [threadPc EXCEPT ![t] = ThreadIdle]
                     ELSE /\ hciLocks' = [hciLocks EXCEPT ![ins.lock] = t]
                          /\ \E pc \in ins.to :
                                threadPc' = [threadPc EXCEPT ![t] =
                                    advance([me EXCEPT !.polls = me.polls + 1],
                                            pc)]
             [] ins.do = "unlock" ->
                  /\ \E pc \in ins.to :
                        /\ hciLocks' = leave([hciLocks EXCEPT
                                                 ![ins.lock] = "free"], t, pc)
                        /\ threadPc' = [threadPc EXCEPT ![t] = advance(me, pc)]
                  /\ UNCHANGED lockOrder
             [] ins.do = "branch" ->
                  /\ \E pc \in ins.to :
                         threadPc' = [threadPc EXCEPT ![t] = advance(me, pc)]
                  /\ UNCHANGED <<hciLocks, lockOrder>>
    /\ UNCHANGED <<vdevVars, hciFrame, mgrVars, poolVars, uplinkVars,
                   handlerVars>>

HciCall == \E t \in HciThreads, op \in CallerOps \cup HandlerOps : hciCall(t, op)
HciStep == \E t \in HciThreads : hciStep(t)

NextLocks ==
    \/ HciCall
    \/ HciStep

\* the adapter: its callers and its event loop over the four mutexes
SpecLocks == Init /\ [][NextLocks]_vars

\* the same, with every thread getting its turn, and getting the mutex it is
\* blocked on when that mutex keeps being released
SpecLocksLive ==
    /\ SpecLocks
    /\ \A t \in HciThreads : SF_vars(hciStep(t))

---------------------------------------------------------------------------
(* Properties of the virtual device manager *)

InMap(id) == id \in DOMAIN m_virtualDevicesMap
Scheduled(id) == id \in m_pollingKeeper
Paired(id) == paired(deviceCache, id)
Coherent ==
    \A id \in DOMAIN m_virtualDevicesMap : Scheduled(id) <=> Paired(id)
Count(seq, x) == Cardinality({k \in 1..Len(seq) : seq[k] = x})

\* C1: when handleRemoteStatus has returned, every device of the devices map
\* is scheduled in the polling keeper iff DeviceCache reports it paired.
C1_RemoteStatusCoherent ==
    lastOp.op = "handleRemoteStatus" => Coherent

\* C1 witness: a remote status has left one device paired and scheduled and
\* another one unpaired and not scheduled.
C1_Witness ==
    /\ lastOp.op = "handleRemoteStatus"
    /\ \E a, b \in DOMAIN m_virtualDevicesMap :
          /\ Paired(a) /\ Scheduled(a)
          /\ ~Paired(b) /\ ~Scheduled(b)

\* C2 as stated: in every state after installVirtualDevices every device of
\* the map is paired and scheduled, or unpaired and not scheduled.
C2_CoherentAfterInstall ==
    installed => Coherent

\* C2 as amended: handleRemoteStatus and every periodic run iteration
\* establish the coherence of pairing and schedule, and listen, accept,
\* unpair, set-value and stop keep it; installVirtualDevices (which records
\* pairing without scheduling) and the end of run() (which cancels every
\* poll and leaves the pairing) are the steps that may break it.
C2_CoherenceKept ==
    [][/\ lastOp'.op \in {"handleRemoteStatus", "run"} => Coherent'
       /\ (Coherent /\ lastOp'.op \notin {"install", "runExit"}) => Coherent'
      ]_vars

\* C2 witness: an unpair of a scheduled device's neighbour: the map holds a
\* paired, scheduled device and the device just unpaired, with no poll.
C2_Witness ==
    /\ lastOp.op = "unpair"
    /\ InMap(lastOp.id)
    /\ ~lastOp.warned
    /\ ~Paired(lastOp.id) /\ ~Scheduled(lastOp.id)
    /\ \E a \in DOMAIN m_virtualDevicesMap : Paired(a) /\ Scheduled(a)
    /\ Coherent

\* C3: an accept of an id of the devices map raises no error and leaves the
\* id paired and scheduled, touching no other device; on a device that is
\* already paired and scheduled it changes nothing (idempotence).
C3_AcceptIdempotent ==
    [][(lastOp'.op = "accept" /\ InMap(lastOp'.id)) =>
          LET id == lastOp'.id IN
          /\ lastOp'.err = "none"
          /\ id \in deviceCache' /\ id \in m_pollingKeeper'
          /\ deviceCache' \ {id} = deviceCache \ {id}
          /\ m_pollingKeeper' \ {id} = m_pollingKeeper \ {id}
          /\ m_virtualDevicesMap' = m_virtualDevicesMap
          /\ (Paired(id) /\ Scheduled(id)) =>
                 /\ deviceCache' = deviceCache
                 /\ m_pollingKeeper' = m_pollingKeeper
      ]_vars

\* C3 witness: an accept of an already-paired device (it logged the warning)
\* has ended without error, the device paired and scheduled.
C3_Witness ==
    /\ lastOp.op = "accept"
    /\ lastOp.warned
    /\ lastOp.err = "none"
    /\ Paired(lastOp.id) /\ Scheduled(lastOp.id)

\* C4: an accept of an id that is not in the devices map fails with NotFound
\* and changes neither DeviceCache nor the polling schedule.
C4_AcceptUnknown ==
    [][(lastOp'.op = "accept" /\ ~InMap(lastOp'.id)) =>
          /\ lastOp'.err = "NotFound"
          /\ deviceCache' = deviceCache
          /\ m_pollingKeeper' = m_pollingKeeper
          /\ m_virtualDevicesMap' = m_virtualDevicesMap
      ]_vars

\* C4 witness: an accept of an unknown id failed with NotFound while another
\* device is paired and scheduled.
C4_Witness ==
    /\ lastOp.op = "accept"
    /\ ~InMap(lastOp.id)
    /\ lastOp.err = "NotFound"
    /\ ~Paired(lastOp.id)
    /\ \E a \in DOMAIN m_virtualDevicesMap : Paired(a) /\ Scheduled(a)

\* C5: an unpair never raises an error; for an id of the devices map it
\* leaves the id unpaired with its poll cancelled (paired before or not) and
\* touches no other device; for an unknown id it changes neither DeviceCache
\* nor the polling schedule.
C5_Unpair ==
    [][lastOp'.op = "unpair" =>
          LET id == lastOp'.id IN
          /\ lastOp'.err = "none"
          /\ m_virtualDevicesMap' = m_virtualDevicesMap
          /\ IF InMap(id)
             THEN /\ id \notin deviceCache' /\ id \notin m_pollingKeeper'
                  /\ deviceCache' \ {id} = deviceCache \ {id}
                  /\ m_pollingKeeper' \ {id} = m_pollingKeeper \ {id}
             ELSE /\ deviceCache' = deviceCache
                  /\ m_pollingKeeper' = m_pollingKeeper
      ]_vars

\* C5 witness: an unpair of an unknown id has returned without error, with
\* another device still paired and scheduled.
C5_Witness ==
    /\ lastOp.op = "unpair"
    /\ ~InMap(lastOp.id)
    /\ lastOp.err = "none"
    /\ lastOp.warned
    /\ \E a \in DOMAIN m_virtualDevicesMap : Paired(a) /\ Scheduled(a)

\* C6: a set-value of an unknown id fails with NotFound; on a known device
\* whose target module has reaction none it fails with an error, modifyValue
\* is not called and no module value changes; otherwise modifyValue is called,
\* and the command fails with IllegalState exactly when modifyValue fails.
C6_SetValue ==
    [][lastOp'.op = "set-value" =>
          LET id == lastOp'.id
              m == lastOp'.module
          IN  IF ~InMap(id)
              THEN /\ lastOp'.err = "NotFound"
                   /\ ~lastOp'.called
                   /\ m_virtualDevicesMap' = m_virtualDevicesMap
              ELSE LET mods == m_virtualDevicesMap[id].modules IN
                   IF \E k \in 1..Len(mods) :
                          mods[k].moduleID = m /\ mods[k].reaction = REACTION_NONE
                   THEN /\ lastOp'.err \in {"InvalidAccess", "IllegalState"}
                        /\ ~lastOp'.called
                        /\ m_virtualDevicesMap' = m_virtualDevicesMap
                   ELSE /\ lastOp'.called
                        /\ lastOp'.err =
                               IF modifyValueOk(m_virtualDevicesMap[id], m)
                               THEN "none" ELSE "IllegalState"
      ]_vars

\* C6 witness: a set-value on a module of reaction none of a device that also
\* has a module set before was rejected.
C6_Witness ==
    /\ lastOp.op = "set-value"
    /\ InMap(lastOp.id)
    /\ lastOp.err = "InvalidAccess"
    /\ ~lastOp.called
    /\ LET mods == m_virtualDevicesMap[lastOp.id].modules IN
       /\ \E k \in 1..Len(mods) :
             mods[k].moduleID = lastOp.module /\ mods[k].reaction = REACTION_NONE
       /\ \E k \in 1..Len(mods) : mods[k].value # 0

\* C26: the modules of every loaded device carry the ModuleIDs 0, 1, ...,
\* k-1 in that order, with no gap and none twice, also when a module of the
\* configuration failed to parse: the device then holds exactly the modules
\* configured before the first failing one.
ModulePrefix(mcfgs) ==
    CHOOSE n \in 0..Len(mcfgs) :
        /\ \A k \in 1..n : ~parseModuleThrows(mcfgs[k])
        /\ n < Len(mcfgs) => parseModuleThrows(mcfgs[n + 1])
C26_ModuleIdsDense ==
    /\ \A id \in DOMAIN m_virtualDevicesMap :
          LET mods == m_virtualDevicesMap[id].modules IN
          \A k \in 1..Len(mods) : mods[k].moduleID = k - 1
    /\ \A cfg \in ModuleDeviceCfgs :
          LET mods == parseDevice(cfg).modules IN
          /\ Len(mods) = ModulePrefix(cfg.modules)
          /\ \A k \in 1..Len(mods) :
                /\ mods[k].moduleID = k - 1
                /\ mods[k].reaction = cfg.modules[k]

\* C26 witness: a file with a module that failed to parse was loaded, and
\* its device holds the one module configured before it, with ModuleID 0.
C26_Witness ==
    /\ lastOp.op = "install"
    /\ lastOp.warned
    /\ \E id \in DOMAIN m_virtualDevicesMap :
          LET mods == m_virtualDevicesMap[id].modules IN
          Len(mods) = 1 /\ mods[1].moduleID = 0

\* C27: after installVirtualDevices every device of the map carries the
\* virtual-device prefix, and the pairing its section configured is what the
\* DeviceCache holds under the DeviceID the device is registered with, also
\* when the configured id had another prefix. The file is one that explains
\* the devices and the cache the load left behind.
RegisteredAt(file, i) ==
    /\ file[i].enable
    /\ ~parseDeviceThrows(file[i])
    /\ \A j \in 1..(i - 1) :
          ~(/\ file[j].enable
            /\ ~parseDeviceThrows(file[j])
            /\ parseDeviceID(file[j]) = parseDeviceID(file[i]))
C27_PairingUnderRegisteredId ==
    [][lastOp'.op = "install" =>
          /\ \A id \in DOMAIN m_virtualDevicesMap' :
                id[1] = PREFIX_VIRTUAL_DEVICE
          /\ \E file \in PairingFiles :
                /\ installFrom(file, 1, m_virtualDevicesMap, deviceCache)
                       = [map |-> m_virtualDevicesMap', cache |-> deviceCache']
                /\ \A i \in 1..Len(file) :
                      RegisteredAt(file, i) =>
                          (paired(deviceCache', parseDeviceID(file[i]))
                               <=> file[i].paired)
      ]_vars

\* C29: once run() has seen the stop request and returned, no device is
\* scheduled for polling, whatever accept command or remote status arrives
\* during or after the shutdown.
C29_NothingScheduledAfterRun ==
    m_stopControl = "done" => m_pollingKeeper = {}

\* C7: a listen emits exactly one NewDeviceCommand for every unpaired device
\* of the devices map, none for a paired device and none for any other id,
\* and changes neither DeviceCache nor the polling schedule.
C7_Listen ==
    [][lastOp'.op = "listen" =>
          /\ \A id \in DeviceIDs :
                Count(dispatched', id) =
                    IF InMap(id) /\ ~Paired(id) THEN 1 ELSE 0
          /\ \A k \in 1..Len(dispatched') : dispatched'[k] \in DeviceIDs
          /\ deviceCache' = deviceCache
          /\ m_pollingKeeper' = m_pollingKeeper
          /\ m_virtualDevicesMap' = m_virtualDevicesMap
      ]_vars

\* C7 witness: a listen has announced the one unpaired device of a map that
\* also holds a paired device.
C7_Witness ==
    /\ lastOp.op = "listen"
    /\ Len(dispatched) = 1
    /\ ~Paired(dispatched[1])
    /\ \E a \in DOMAIN m_virtualDevicesMap : Paired(a) /\ Scheduled(a)

---------------------------------------------------------------------------
(* Properties of the BLE device map *)

\* the RSSI property of the D-Bus object behind the record of mac
CurrentRssi(mac) == dbusObjects[m_devices[mac].device].rssi
\* the record of mac had an RSSI update at most le_max_age_rssi ago
RecentRssiUpdate(mac) ==
    /\ seenEvidence[mac].byRssi
    /\ now - seenEvidence[mac].at <= LeMaxAgeRssi

\* C8 as stated: a record with no RSSI update within le_max_age_rssi before
\* the snapshot, a record that never had an RSSI update included, is absent
\* from the lescan result; a record with an RSSI update within that window
\* and a current RSSI other than 0 is present.
C8_VisibleOnlyByRssiUpdate ==
    [][lastHci'.op = "lescan" =>
          \A mac \in DOMAIN m_devices :
              /\ ~RecentRssiUpdate(mac) => mac \notin lastHci'.found
              /\ (RecentRssiUpdate(mac)
                     /\ CurrentRssi(mac) # RSSI_DEVICE_UNAVAILABLE)
                        => mac \in lastHci'.found
      ]_vars

\* C8 amended: a record whose last RSSI update, or whose creation when it
\* never had one, is more than le_max_age_rssi before the snapshot is absent
\* from the lescan result; a record with an RSSI update within that window
\* and a current RSSI other than 0 is present.
C8_VisibleByLastSeen ==
    [][lastHci'.op = "lescan" =>
          \A mac \in DOMAIN m_devices :
              /\ now - seenEvidence[mac].at > LeMaxAgeRssi
                     => mac \notin lastHci'.found
              /\ (RecentRssiUpdate(mac)
                     /\ CurrentRssi(mac) # RSSI_DEVICE_UNAVAILABLE)
                        => mac \in lastHci'.found
      ]_vars

\* C8 witness: a lescan has returned a device that was added to the map and
\* never had an RSSI update, and has left out a device in range whose last
\* RSSI update is older than le_max_age_rssi.
C8_Witness ==
    /\ lastHci.op = "lescan"
    /\ \E mac \in lastHci.found :
          /\ mac \in DOMAIN seenEvidence
          /\ ~seenEvidence[mac].byRssi
    /\ \E mac \in DOMAIN m_devices \ lastHci.found :
          /\ seenEvidence[mac].byRssi
          /\ now - seenEvidence[mac].at > LeMaxAgeRssi
          /\ CurrentRssi(mac) # RSSI_DEVICE_UNAVAILABLE

\* the record of mac is not watched and its last RSSI update is older than
\* max_unavailability
StaleUnwatched(mac) ==
    /\ mac \in DOMAIN m_devices
    /\ ~m_devices[mac].watched
    /\ seenEvidence[mac].byRssi
    /\ now - seenEvidence[mac].at > LeMaxUnavailabilityTime

Stale(mac) ==
    /\ mac \in DOMAIN m_devices
    /\ now - m_devices[mac].lastSeen > LeMaxUnavailabilityTime

\* C24: no step takes a watched record out of the device map, and the
\* eviction pass of a lescan keeps every watched record however old it is,
\* while it removes every record that is stale and not watched, among them
\* the records that were unwatched since the pass before.
C24_WatchedNeverEvicted ==
    [][\A mac \in DOMAIN m_devices :
          /\ m_devices[mac].watched =>
                 /\ mac \in DOMAIN m_devices'
                 /\ lastHci'.op = "lescan" => mac \notin lastHci'.removed
          /\ (lastHci'.op = "lescan" /\ ~m_devices[mac].watched /\ Stale(mac)) =>
                 /\ mac \notin DOMAIN m_devices'
                 /\ mac \in lastHci'.removed
      ]_vars

\* C24 witness: an eviction pass has removed nothing although a record is
\* stale, because that record is watched; its RSSI was updated once.
C24_Witness ==
    /\ lastHci.op = "lescan"
    /\ lastHci.removed = {}
    /\ \E mac \in DOMAIN m_devices :
          /\ Stale(mac)
          /\ m_devices[mac].watched
          /\ m_devices[mac].rssi # RSSI_DEVICE_UNAVAILABLE

\* C12: in every state the device map has a record for a mac if and only if
\* the bus has a Device1 object for that mac under the adapter of the map.
C12_RecordIffObject ==
    \A mac \in MACs :
        mac \in DOMAIN m_devices
            <=> createDevicePath(m_name, mac) \in DOMAIN dbusObjects

\* C13: a watch on a device that is watched changes nothing: the device
\* keeps its callback and gets no second subscription; an unwatch on a mac
\* that is unknown or not watched changes nothing; a watch on an unknown mac
\* fails with NotFound and leaves the device map as it was.
C13_WatchIdempotent ==
    [][LET mac == lastHci'.mac IN
       /\ (lastHci'.op = "watch" /\ mac \in DOMAIN m_devices
              /\ isWatched(m_devices[mac]))
             => /\ m_devices' = m_devices
                /\ lastHci'.err = "none"
       /\ (lastHci'.op = "watch" /\ mac \notin DOMAIN m_devices)
             => /\ m_devices' = m_devices
                /\ lastHci'.err = "NotFoundException"
       /\ (lastHci'.op = "unwatch"
              /\ (mac \notin DOMAIN m_devices \/ ~isWatched(m_devices[mac])))
             => /\ m_devices' = m_devices
                /\ lastHci'.err = "none"
       /\ \A m \in DOMAIN m_devices' : m_devices'[m].watchSignals <= 1
      ]_vars

\* C13 witness: a device watched with one callback has been watched again
\* with another one and has kept the first.
C13_Witness ==
    /\ lastHci.op = "watch"
    /\ lastHci.err = "none"
    /\ lastHci.mac \in DOMAIN m_devices
    /\ m_devices[lastHci.mac].watched
    /\ m_devices[lastHci.mac].callBack # lastHci.callBack
    /\ m_devices[lastHci.mac].watchSignals = 1

\* C14: connect fails with NotFound when the mac is not in the device map,
\* with IO when the backend reports an error other than "in progress", and
\* returns a connection when the device is connected already, when the
\* backend succeeds and when the backend reports error 36 (in progress).
C14_Connect ==
    [][lastHci'.op = "connect" =>
          LET mac == lastHci'.mac
              connected == lastHci'.backend
              error == lastHci'.gerror
              known == mac \in DOMAIN m_devices
              inProgress == error # <<>> /\ error[1] = 36
          IN  /\ ~known => (lastHci'.err = "NotFoundException" /\ ~lastHci'.result)
              /\ (known /\ ~connected /\ error # <<>> /\ ~inProgress)
                    => (lastHci'.err = "IOException" /\ ~lastHci'.result)
              /\ (known /\ (connected \/ error = <<>> \/ inProgress))
                    => (lastHci'.err = "none" /\ lastHci'.result)
      ]_vars

\* C14 witness: the backend has answered "in progress" for a known device
\* that was not connected, and connect has returned a connection.
C14_Witness ==
    /\ lastHci.op = "connect"
    /\ lastHci.mac \in DOMAIN m_devices
    /\ ~lastHci.backend
    /\ lastHci.gerror = <<GERROR_IN_PROGRESS>>
    /\ lastHci.result
    /\ lastHci.err = "none"

---------------------------------------------------------------------------
(* Properties of the power transitions *)

\* C15 as stated: up() on a powered adapter and down() on an unpowered one
\* issue no power change and succeed; after a successful up() the adapter is
\* powered and discovering.
C15_PowerIdempotent ==
    [][/\ (lastHci'.op = "up" /\ powered)
             => (~lastHci'.powerChange /\ lastHci'.err = "none")
       /\ (lastHci'.op = "down" /\ ~powered)
             => (~lastHci'.powerChange /\ lastHci'.err = "none")
       /\ (lastHci'.op = "up" /\ lastHci'.err = "none")
             => (powered' /\ discovering')
      ]_vars

\* C15 amended: up() on a powered adapter and down() on an unpowered one issue
\* no power change; that down() succeeds, and that up() succeeds unless the
\* adapter is not discovering and the discovery fails to start (IO); after a
\* successful up() the adapter is powered and discovering.
C15_PowerIdempotentButDiscovery ==
    [][/\ (lastHci'.op = "up" /\ powered)
             => /\ ~lastHci'.powerChange
                /\ lastHci'.err \in {"none", "IOException"}
                /\ lastHci'.err = "IOException"
                      <=> (/\ ~discovering
                           /\ lastHci'.gerror # <<>>
                           /\ lastHci'.gerror[1] # GERROR_IN_PROGRESS)
       /\ (lastHci'.op = "down" /\ ~powered)
             => (~lastHci'.powerChange /\ lastHci'.err = "none")
       /\ (lastHci'.op = "up" /\ lastHci'.err = "none")
             => (powered' /\ discovering')
      ]_vars

\* C15 witness: up() on an adapter that was powered and not discovering has
\* succeeded without a power change and has left the adapter discovering.
C15_Witness ==
    /\ lastHci.op = "up"
    /\ lastHci.backend
    /\ ~lastHci.powerChange
    /\ lastHci.err = "none"
    /\ lastHci.gerror = <<GERROR_IN_PROGRESS>>
    /\ powered
    /\ discovering

\* a power transition that has polled
PowerPolled(op) == op.op \in {"up", "down"} /\ op.powerChange

\* C16 as stated: a power transition makes at most 5 polls 200 ms apart,
\* returns at the first poll that reads the requested state, and fails with
\* Timeout exactly when the state has not flipped by the end of the 5
\* attempts, a flip during the last delay counting as flipped.
C16_TimeoutIffNeverFlipped ==
    [][PowerPolled(lastHci') =>
          /\ lastHci'.polls <= 5
          /\ lastHci'.err = "TimeoutException" <=> lastHci'.flipAt > 5
          /\ lastHci'.err # "TimeoutException"
                => /\ lastHci'.polls = lastHci'.flipAt + 1
                   /\ lastHci'.waitedMs = 200 * lastHci'.flipAt
      ]_vars

\* C16 amended: a power transition makes at most 5 polls 200 ms apart,
\* returns at the first poll that reads the requested state, and fails with
\* Timeout exactly when none of the 5 polls reads it: a flip during the delay
\* after the fifth poll is not seen and the transition fails with Timeout.
C16_TimeoutIffNoPollSaw ==
    [][PowerPolled(lastHci') =>
          /\ lastHci'.polls <= 5
          /\ lastHci'.err = "TimeoutException" <=> lastHci'.flipAt >= 5
          /\ lastHci'.err # "TimeoutException"
                => /\ lastHci'.polls = lastHci'.flipAt + 1
                   /\ lastHci'.waitedMs = 200 * lastHci'.flipAt
          /\ lastHci'.err = "TimeoutException"
                => /\ lastHci'.polls = 5
                   /\ lastHci'.waitedMs = 200 * 5
      ]_vars

\* C16 witness: the adapter became powered during the delay after the fifth
\* poll and up() has failed with Timeout.
C16_Witness ==
    /\ lastHci.op = "up"
    /\ lastHci.powerChange
    /\ lastHci.flipAt = 5
    /\ lastHci.polls = 5
    /\ lastHci.err = "TimeoutException"
    /\ powered

---------------------------------------------------------------------------
(* Properties of the event loop *)

\* C18: while a watch callback runs, the event loop thread holds no lock of
\* the adapter, so that a watch or an unwatch the callback calls on the same
\* adapter is not blocked by the thread's own lock.
C18_CallbackWithoutLock ==
    loopPc.pc \in {"callback", "called"} => devicesLock # "loop"

\* C18 witness: the callback of a signal that changed the RSSI and the
\* manufacturer data has called unwatch on its adapter, and the device is
\* not watched any more.
C18_Witness ==
    /\ loopPc.pc = "called"
    /\ loopPc.changed = PropertyNames
    /\ lastHci.op = "unwatch"
    /\ lastHci.mac = macAddress(loopPc.path)
    /\ lastHci.mac \in DOMAIN m_devices
    /\ ~m_devices[lastHci.mac].watched
    /\ m_devices[lastHci.mac].lastSeen > 0

---------------------------------------------------------------------------
(* Properties of the adapter manager *)

\* C19: every lookup of one name returns the same adapter, whatever the
\* interleaving of the lookups, and at most one adapter is constructed for a
\* name.
C19_OneAdapterPerName ==
    /\ \A a \in returned, b \in returned : a[1] = b[1] => a[2] = b[2]
    /\ \A name \in AdapterNames : Count(constructed, name) <= 1

\* C19 witness: two threads have looked one name up and have got the same
\* adapter; the other name has an adapter of its own.
C19_Witness ==
    /\ \A t \in Threads : lookupPc[t].pc = "idle"
    /\ \A t \in Threads : lookupPc[t].name = "hci0"
    /\ \A t \in Threads : lookupPc[t].result # NoAdapter
    /\ lookupPc["t1"].result = lookupPc["t2"].result
    /\ Len(constructed) = Cardinality(AdapterNames)

---------------------------------------------------------------------------
(* Properties of the context pool *)

\* the waiter of id has been given exactly this one outcome
DeliveredOnce(id, outcome) == delivered[id] = <<outcome>>

\* C20: for every correlation id registered in the context pool exactly one
\* outcome out of Fulfilled, TimedOut and Cancelled is delivered to its
\* waiter: never a second one, eventually one, and it is the outcome of the
\* operation that took the entry first (Fulfilled iff fulfill took it), under
\* every interleaving of fulfill, reap and cancel_all; an id that was not
\* registered gets none.
C20_DeliveryOnce ==
    /\ [](\A id \in CorrelationIds :
            /\ Len(delivered[id]) <= 1
            /\ id \notin DOMAIN deadlines => delivered[id] = <<>>
            /\ delivered[id] # <<>> =>
                   delivered[id] = <<Outcome(takers[id][1].op)>>)
    /\ \A id \in CorrelationIds :
           (id \in DOMAIN deadlines) ~> (Len(delivered[id]) = 1)

\* C20 witness: one waiter was given Fulfilled by a fulfill that took the
\* entry when its deadline had passed and reap could have taken it, one
\* TimedOut and one Cancelled, and nothing is left in the pool.
C20_Witness ==
    /\ m_contextPoll = <<>>
    /\ \E id \in DOMAIN deadlines :
           /\ DeliveredOnce(id, "Fulfilled")
           /\ takers[id][1].at >= deadlines[id]
    /\ \E id \in DOMAIN deadlines : DeliveredOnce(id, "TimedOut")
    /\ \E id \in DOMAIN deadlines : DeliveredOnce(id, "Cancelled")

---------------------------------------------------------------------------
(* Properties of the handlers of the virtual device manager as threads *)

InCritical(t) == handlerPc[t].pc \in {"locked", "marked", "read"}
Quiescent == \A t \in HandlerThreads : handlerPc[t].pc = "idle"

\* C25: a thread is inside listen, accept, unpair, set-value or
\* scheduleAllEntries only while it holds m_lock, so no two threads are inside
\* at once; and when every call has returned, each id of the devices map on
\* which an accept, an unpair or a scheduleAllEntries (of handleRemoteStatus
\* or of run) has completed is scheduled iff it is paired in DeviceCache.
C25_OneLock ==
    /\ \A t \in HandlerThreads : InCritical(t) => m_lock = t
    /\ \A t1 \in HandlerThreads, t2 \in HandlerThreads :
           (InCritical(t1) /\ InCritical(t2)) => t1 = t2
    /\ Quiescent =>
           \A id \in DOMAIN m_virtualDevicesMap :
               reconciled[id] # "none" =>
                   (id \in m_pollingKeeper <=> paired(deviceCache, id))

\* C25 witness: every call has returned; an accept was the last to complete
\* on one id, which is paired and scheduled, and a scheduleAllEntries on
\* another, which is neither.
C25_Witness ==
    /\ Quiescent
    /\ \E id \in DOMAIN m_virtualDevicesMap :
           /\ reconciled[id] = "accept"
           /\ paired(deviceCache, id)
           /\ id \in m_pollingKeeper
    /\ \E id \in DOMAIN m_virtualDevicesMap :
           /\ reconciled[id] = "scheduleAllEntries"
           /\ ~paired(deviceCache, id)
           /\ id \notin m_pollingKeeper

---------------------------------------------------------------------------
(* Properties of the uplink *)

Reconnecting == senderPc.pc \in {"disconnect", "connect", "register", "awaitAck"}

\* C21: at most one WebSocket is open at any instant; while the sender is in
\* reconnect it holds the send mutex and the receive mutex, so that no send
\* and no receive overlaps it (a send holds the send mutex, a receive the
\* receive mutex); and the socket of the connector is replaced only in a step
\* of reconnect, with both mutexes held.
C21_ReconnectExclusive ==
    /\ [](/\ Cardinality(openSockets) <= 1
          /\ Reconnecting =>
                 /\ m_sendMutex = "sender"
                 /\ m_receiveMutex = "sender"
                 /\ receiverPc # "reading"
          /\ senderPc.pc = "sending" => m_sendMutex = "sender"
          /\ receiverPc = "reading" => m_receiveMutex = "receiver")
    /\ [][m_socket' # m_socket =>
              /\ Reconnecting
              /\ m_sendMutex = "sender"
              /\ m_receiveMutex = "sender"]_vars

\* C21 witness: a reconnect has replaced the first socket by the second, the
\* only one open, and the receiver reads on it while the sender writes.
C21_Witness ==
    /\ m_socket = 2
    /\ openSockets = {2}
    /\ receiverPc = "reading"
    /\ senderPc.pc = "sending"
    /\ uplinkState = "Ready"

UplinkStep(from, to) ==
    \/ to = "Disconnected"
    \/ from = "Disconnected" /\ to = "Connecting"
    \/ from = "Connecting" /\ to = "Registering"
    \/ from = "Registering" /\ to = "Ready"

\* C22: the uplink changes state only along Disconnected -> Connecting ->
\* Registering -> Ready or back to Disconnected; it is Ready only on a socket
\* a RegisterAck was received on; every failure (connect, register, send,
\* read, oversized or unparsable frame) leaves it Disconnected; and if from
\* some point on the server is reachable and stop() is not called, the uplink
\* is Ready on a standing connection again and again.
C22_AutomaticReconnect ==
    /\ [][uplinkState' # uplinkState => UplinkStep(uplinkState, uplinkState')]_vars
    /\ [](uplinkState = "Ready" => m_socket \in acked)
    /\ [](lastFault # "none" => uplinkState = "Disconnected")
    /\ (<>[](reachable /\ ~m_stop)) =>
           []<>(uplinkState = "Ready" /\ Alive(m_socket))

\* C22 witness: the first socket was lost after its registration, the second
\* one never got its RegisterAck, and the uplink is Ready on the third.
C22_Witness ==
    /\ uplinkState = "Ready"
    /\ m_socket = 3
    /\ acked = {1, 3}
    /\ Alive(m_socket)

\* C23: messages are numbered in the order of their enqueue; of two messages
\* written to the same WebSocket the one enqueued first is written first.
C23_QueueFifo ==
    \A i \in 1..Len(wire), j \in 1..Len(wire) :
        (i < j /\ wire[i].socket = wire[j].socket) => wire[i].msg < wire[j].msg

\* C23 witness: two messages were written to one socket, and a third
\* message, enqueued before the last of them, was never written.
C23_Witness ==
    /\ Len(wire) >= 2
    /\ \A i \in 1..Len(wire) : wire[i].socket = wire[1].socket
    /\ \E msg \in 1..enqueued :
           /\ msg < wire[Len(wire)].msg
           /\ \A i \in 1..Len(wire) : wire[i].msg # msg

---------------------------------------------------------------------------
(* Properties of the classic presence detection *)

\* C30: the lastSeen of a record of the device map changes only in a
\* properties-changed signal of the device with that address that names the
\* RSSI property; a signal without RSSI and a signal of another device leave
\* it, and no signal creates a record: records come from object-added only.
C30_LastSeenOnlyByOwnRssi ==
    [][/\ \A mac \in DOMAIN m_devices \cap DOMAIN m_devices' :
             m_devices'[mac].lastSeen # m_devices[mac].lastSeen =>
                 /\ lastHci'.op = "propertiesChanged"
                 /\ lastHci'.mac = mac
                 /\ lastHci'.backend
       /\ DOMAIN m_devices' \ DOMAIN m_devices # {} =>
             lastHci'.op = "objectAdded"
      ]_vars

\* C30 witness: an RSSI signal has arrived for an address without a record:
\* no record was created, and the record of the other device still has the
\* lastSeen of an earlier time.
C30_Witness ==
    /\ lastHci.op = "propertiesChanged"
    /\ lastHci.backend
    /\ lastHci.mac \notin DOMAIN m_devices
    /\ \E other \in DOMAIN m_devices :
          /\ other # lastHci.mac
          /\ m_devices[other].lastSeen < now

\* the relation R of the nodes S composed with itself up to paths of n steps
RECURSIVE Paths_(_, _, _)
Paths_(R, S, n) ==
    IF n <= 1 THEN R
    ELSE LET P == Paths_(R, S, n - 1) IN
         P \cup {e \in S \X S :
                    \E b \in S : <<e[1], b>> \in P /\ <<b, e[2]>> \in R}
Cyclic(R, S) == \E a \in S : <<a, a>> \in Paths_(R, S, Cardinality(S))

\* thread t is at a lock instruction whose mutex is held
Wanted(t) ==
    IF threadPc[t] = ThreadIdle THEN "none"
    ELSE LET ins == Program(threadPc[t].op)[threadPc[t].pc] IN
         IF ins.do \in {"lock", "relock"} /\ hciLocks[ins.lock] # "free"
         THEN ins.lock
         ELSE "none"
WaitsFor ==
    {e \in HciThreads \X HciThreads :
        Wanted(e[1]) # "none" /\ hciLocks[Wanted(e[1])] = e[2]}

\* C28: the adapter is free of deadlock: over every interleaving of up, down,
\* reset, lescan, connect, watch, unwatch, detect and the signal handlers of
\* the event loop, no two of the four mutexes are ever taken in conflicting
\* order, no threads wait for each other in a circle, a mutex is held only
\* by a thread inside an operation, and every operation that has started
\* comes to its end, so no thread waits forever for a mutex.
C28_DeadlockFree ==
    /\ [](/\ ~Cyclic(lockOrder, HciMutexes)
          /\ ~Cyclic(WaitsFor, HciThreads)
          /\ \A m \in HciMutexes :
                hciLocks[m] # "free" => threadPc[hciLocks[m]] # ThreadIdle)
    /\ \A t \in HciThreads :
          (threadPc[t] # ThreadIdle) ~> (threadPc[t] = ThreadIdle)

\* C28 witness: one caller holds m_statusMutex and m_discoveringMutex, taken
\* in that order, while the event loop waits for the device map that the
\* other caller holds.
C28_Witness ==
    /\ <<"m_statusMutex", "m_discoveringMutex">> \in lockOrder
    /\ \E t \in HciThreads :
          /\ heldBy(t) = {"m_statusMutex", "m_discoveringMutex"}
          /\ \E u \in HciThreads \ {t, "loop"} : <<"loop", u>> \in WaitsFor
    /\ Wanted("loop") = "m_devices"

\* C9: a detect(mac) for which the backend reports the device present returns
\* true, and every detect(mac) at most classic_artificial_availability after
\* the last such detection returns true whatever the backend reports.
C9_ClassicSmoothing ==
    [][lastHci'.op = "detect" =>
          LET mac == lastHci'.mac IN
          /\ lastHci'.backend => lastHci'.result
          /\ (/\ mac \in DOMAIN confirmedAt
              /\ now - confirmedAt[mac] <= ClassicArtificialAvaibilityTimeout)
                 => lastHci'.result
      ]_vars

\* C9 witness: the backend reported the device absent exactly
\* classic_artificial_availability after its last confirmed detection, which
\* was not the first one, and detect returned true.
C9_Witness ==
    /\ lastHci.op = "detect"
    /\ ~lastHci.backend
    /\ lastHci.result
    /\ lastHci.mac \in DOMAIN confirmedAt
    /\ confirmedAt[lastHci.mac] > 0
    /\ now - confirmedAt[lastHci.mac] = ClassicArtificialAvaibilityTimeout

\* C10: detect returns true against an absent answer of the backend only if
\* the last backend-confirmed detection is at most
\* classic_artificial_availability old; a detect with an absent answer leaves
\* the timestamps alone; a never-seen mac gets the answer of the backend; after
\* a confirmed detection at t=0 an absent answer gives true at t=20 and false
\* at t=45.
C10_ArtificialOnlyWhenRecent ==
    [][lastHci'.op = "detect" =>
          LET mac == lastHci'.mac
              b == lastHci'.backend
              r == lastHci'.result
              known == mac \in DOMAIN confirmedAt
          IN  /\ (r /\ ~b) =>
                     /\ known
                     /\ now - confirmedAt[mac] <= ClassicArtificialAvaibilityTimeout
              /\ ~b => m_seenClassicDevices' = m_seenClassicDevices
              /\ ~known => r = b
              /\ (known /\ ~b /\ confirmedAt[mac] = 0 /\ now = 20) => r
              /\ (known /\ ~b /\ confirmedAt[mac] = 0 /\ now = 45) => ~r
      ]_vars

\* C10 witness: the last confirmed detection was at t=0 and the backend
\* reports the device absent at t=45: detect has returned false.
C10_Witness ==
    /\ lastHci.op = "detect"
    /\ ~lastHci.backend
    /\ ~lastHci.result
    /\ now = 45
    /\ lastHci.mac \in DOMAIN confirmedAt
    /\ confirmedAt[lastHci.mac] = 0

===========================================================================
